---- MODULE Spec2Model ----
(***************************************************************************)
(* Fetch-with-fallback layer of satoshi-forex: the CoinGecko price route,  *)
(* the four variants of the IMF GDP route, their snapshot files and the    *)
(* prime-cache script.  A handler runs from one await to the next in one   *)
(* step: the arrival of a request runs the code up to the first fetch, and *)
(* each answer of a transport runs it up to the next fetch or to the       *)
(* response.  The answers of the transports and the outcomes of the file   *)
(* reads and writes are the inputs of the steps.                           *)
(***************************************************************************)
EXTENDS Integers, Sequences, FiniteSets, TLC

VARIABLES now, files, resp, cycle, page, conv, race, og

vars == <<now, files, resp, cycle, page, conv, race, og>>

(***************************************************************************)
(* Bounds of the model.                                                    *)
(***************************************************************************)
\* number of clock steps a behaviour may take
MaxTicks == 1
\* greatest number of leading tokens a torn write leaves in the file
MaxPartial == 1
\* number of distinct bitcoin quotes the price source may answer with
NumQuotes == 2
\* greatest amount and greatest price given to the unit converter, and the
\* number of conversions of a run
MaxAmount == 5
MaxPrice == 3
MaxOps == 2
\* the largest maxRetries given to fetchWithRetry, and the requests for the image
MaxRetries == 4
MaxRequests == 2

(***************************************************************************)
(* Program constants.                                                      *)
(***************************************************************************)
\* imf/route.ts:82  (7 days, cache-first GDP handler)
sevenDaysInMs == 7 * 24 * 60 * 60 * 1000
\* convert/[currency]/page.tsx:495  (24 hours, expiry-based GDP handler)
CACHE_EXPIRY_MS == 24 * 60 * 60 * 1000
\* minimum number of countries a GDP table must hold (imf/route.ts:241,477,
\* convert/[currency]/page.tsx:455)
MIN_COUNTRIES == 20
\* number of countries of the hard-coded table of scripts/prime-cache.js:17-50
PRIME_COUNTRIES == 31

\* one step of the clock: the seven-day window, so that a snapshot is either
\* fresh under both thresholds or stale under both
TickMs == sevenDaysInMs

Domains == {"price", "gdp"}

(***************************************************************************)
(* JSON text.  A document is the sequence of its tokens: an opening brace, *)
(* one token per member in the order written, a closing brace.  A torn     *)
(* write leaves a proper prefix of the document.                           *)
(***************************************************************************)
Tok(k, v) == [key |-> k, val |-> v]

\* JSON.stringify(obj): the members of obj in the order of keys
JSONstringify(obj, keys) ==
    <<Tok("{", 0)>> \o [i \in 1..Len(keys) |-> Tok(keys[i], obj[keys[i]])]
                    \o <<Tok("}", 0)>>

\* JSON.parse(text): raises (ok = FALSE) unless the text is a whole document
JSONparse(text) ==
    IF /\ Len(text) >= 2
       /\ text[1].key = "{"
       /\ text[Len(text)].key = "}"
    THEN [ok |-> TRUE,
          value |-> [k \in {text[i].key : i \in 2..(Len(text) - 1)} |->
                       text[CHOOSE i \in 2..(Len(text) - 1) : text[i].key = k].val]]
    ELSE [ok |-> FALSE, value |-> <<>>]


\* the members of a parsed object among keys; reading a member the object
\* does not have gives undefined, and NextResponse.json leaves a member
\* whose value is undefined out of the body
Pick(obj, keys) == [k \in (keys \cap DOMAIN obj) |-> obj[k]]

(***************************************************************************)
(* The file system.  A file either does not exist or holds a text.         *)
(***************************************************************************)
NoFile == [exists |-> FALSE, text |-> <<>>]

\* what a call of fs.writeFileSync (with the directory check before it) can
\* do: succeed; raise before the file is opened (the directory cannot be
\* created, or the file cannot be opened); raise after the file was truncated
\* and keep leading tokens were written; or be cut at that point by the
\* death of the process
WriteOutcomes ==
    {[kind |-> "ok", keep |-> 0], [kind |-> "denied", keep |-> 0]}
    \cup [kind : {"raises", "crash"}, keep : 0..MaxPartial]

\* a write that leaves a file that exists as it is (flag 'wx' without the
\* error)
WriteFileSyncKeep(file, text, w) ==
    CASE w.kind = "ok" ->
           [file |-> IF file.exists THEN file
                     ELSE [exists |-> TRUE, text |-> text],
            raised |-> FALSE, crashed |-> FALSE]
      [] w.kind = "denied" ->
           [file |-> file, raised |-> TRUE, crashed |-> FALSE]
      [] w.kind = "raises" ->
           [file |-> [exists |-> TRUE, text |-> SubSeq(text, 1, w.keep)],
            raised |-> TRUE, crashed |-> FALSE]
      [] OTHER ->
           [file |-> [exists |-> TRUE, text |-> SubSeq(text, 1, w.keep)],
            raised |-> FALSE, crashed |-> TRUE]

\* fs.writeFileSync(path, text): the file is truncated when it is opened and
\* the text is written after that
WriteFileSync(file, text, w) ==
    CASE w.kind = "ok" ->
           [file |-> [exists |-> TRUE, text |-> text],
            raised |-> FALSE, crashed |-> FALSE]
      [] w.kind = "denied" ->
           [file |-> file, raised |-> TRUE, crashed |-> FALSE]
      [] w.kind = "raises" ->
           [file |-> [exists |-> TRUE, text |-> SubSeq(text, 1, w.keep)],
            raised |-> TRUE, crashed |-> FALSE]
      [] OTHER ->
           [file |-> [exists |-> TRUE, text |-> SubSeq(text, 1, w.keep)],
            raised |-> FALSE, crashed |-> TRUE]

\* what fs.readFileSync can do on an existing file: return the text or raise
ReadOutcomes == {"ok", "eio"}

Null == [null |-> TRUE]
Raised == [raised |-> TRUE]

(***************************************************************************)
(* Snapshot store of the route handlers (coingecko/route.ts:43-69,         *)
(* imf/route.ts:53-76, convert/[currency]/page.tsx:245-272).               *)
(***************************************************************************)
\* readFromCache() without its try block: a failed file read or a failed
\* JSON.parse reaches the caller
readFromCacheUnguarded(file, io) ==
    IF ~file.exists THEN Null
    ELSE IF io = "eio" THEN Raised
    ELSE LET parsed == JSONparse(file.text)
         IN  IF parsed.ok THEN parsed.value ELSE Raised

\* readFromCache(): every failure inside the try block is caught and turns
\* into null; "cacheData.timestamp" is read for the log line
readFromCache(file, io) ==
    IF ~file.exists THEN Null
    ELSE IF io = "eio" THEN Null
    ELSE LET parsed == JSONparse(file.text)
         IN  IF parsed.ok THEN parsed.value ELSE Null

\* writeToCache(...) without its try block: the error of the directory
\* check or of the write reaches the caller
writeToCacheUnguarded(file, text, w) ==
    LET r == WriteFileSync(file, text, w)
    IN  [file |-> r.file, raised |-> r.raised, crashed |-> r.crashed]

\* writeToCache(...): the error of the directory check or of the write is
\* caught and logged, never raised to the caller
writeToCache(file, text, w) ==
    LET r == WriteFileSync(file, text, w)
    IN  [file |-> r.file, raised |-> FALSE, crashed |-> r.crashed]

(***************************************************************************)
(* Responses and the record of what the request in hand did.               *)
(***************************************************************************)
NoBody == [b \in {} |-> 0]
NoResp == [handler |-> "none", status |-> 0, body |-> NoBody]

\* NextResponse.json(body, {status})
Response(h, status, body) == [handler |-> h, status |-> status, body |-> body]

Err(by, why) == [by |-> by, why |-> why]
NoError == Err("none", "none")

\* handler: which handler runs; domain: its snapshot file; at: the time the
\* request arrived; phase: "fetching"
\* while a fetch is awaited, "done" once the response is sent, "crashed" if
\* the process died; pos: the position in the list of approaches; before:
\* the snapshot file when the request arrived; attempts: the transports
\* contacted, in order; failures: the number of failed attempts logged;
\* lastFailure: the error logged for the latest failed attempt; lastError:
\* the variable of that name in the loop; live: whether the live fetch gave
\* a validated payload, liveData that payload; chainError: the error the
\* fetch raised to the handler; read: the result of the latest snapshot
\* read ("none" if there was none), io the outcome of the file read under
\* it; write: the outcome of the snapshot
\* write ("none" if there was none); served: where the payload of the
\* response comes from; late: the fetch that the handler gave up
\* waiting for ("pending" while it runs on, "settled" with what it returned)
NoLate == [state |-> "none", data |-> Null]
NoCycle ==
    [handler |-> "none", domain |-> "none", at |-> 0, phase |-> "none",
     pos |-> 0, late |-> NoLate,
     before |-> NoFile, attempts |-> <<>>, failures |-> 0,
     lastFailure |-> NoError, lastError |-> NoError,
     live |-> FALSE, liveData |-> Null, chainError |-> NoError,
     read |-> "none", io |-> "none", write |-> "none", served |-> "none"]

\* a request arrives at time t at handler h of domain d
Arrival(h, d, file, t) ==
    [NoCycle EXCEPT !.handler = h, !.domain = d, !.at = t,
                    !.phase = "fetching", !.pos = 1, !.before = file]

\* the handler answers
Reply(file, c, status, body, served) ==
    [file |-> file, resp |-> Response(c.handler, status, body),
     cycle |-> [c EXCEPT !.phase = "done", !.served = served]]

\* the process dies before the handler answers
Dies(file, c) ==
    [file |-> file, resp |-> NoResp, cycle |-> [c EXCEPT !.phase = "crashed"]]

\* the single fetch of a handler without a list of approaches failed
Failed(c, error) ==
    [c EXCEPT !.failures = 1, !.lastFailure = error, !.chainError = error]

Read(c, io, cachedData) ==
    [c EXCEPT !.io = io,
              !.read = IF cachedData = Raised THEN "raised"
                       ELSE IF cachedData = Null THEN "null" ELSE "record"]

(***************************************************************************)
(* The price route: coingecko/route.ts.                                    *)
(***************************************************************************)
\* what the price source can answer: the request raises (network error, or
\* a body that is not JSON), a non-success status, a body without the
\* "bitcoin" member, or a quote table
PriceAnswers ==
    [kind : {"throws", "status", "nobitcoin"}, q : {0}]
    \cup [kind : {"ok"}, q : 1..NumQuotes]

\* coingecko/route.ts:101-116: the fetch and its validation
FetchPrice(up) ==
    CASE up.kind = "throws" ->
           [ok |-> FALSE, data |-> Null, error |-> Err("direct", "fetch failed")]
      [] up.kind = "status" ->
           [ok |-> FALSE, data |-> Null,
            error |-> Err("direct", "CoinGecko API returned status")]
      [] up.kind = "nobitcoin" ->
           [ok |-> FALSE, data |-> Null,
            error |-> Err("direct", "Invalid response format from CoinGecko API")]
      [] OTHER ->
           [ok |-> TRUE, data |-> [bitcoin |-> up.q], error |-> NoError]

\* the catch blocks of GET with a clean-up added: a snapshot file that
\* cannot be read is removed
CoinGeckoFallbackCleaning(file, io, c) ==
    LET cachedData == readFromCache(file, io)
        c1 == Read(c, io, cachedData)
    IN  IF cachedData = Raised
        THEN Reply(file, c1, 500, [error |-> "cache read raised"], "none")
        ELSE IF cachedData # Null
        THEN Reply(file, c1, 200,
                   [source |-> "cache"] @@ Pick(cachedData, {"timestamp", "data"}),
                   "snapshot")
        ELSE Reply(NoFile, c1, 500,
                   [error |-> "Failed to fetch from CoinGecko API and no cache available"],
                   "none")

\* coingecko/route.ts:127-152: the catch blocks of GET
CoinGeckoFallback(file, io, c) ==
    LET cachedData == readFromCache(file, io)
        c1 == Read(c, io, cachedData)
    IN  IF cachedData = Raised
        THEN Reply(file, c1, 500, [error |-> "cache read raised"], "none")
        ELSE IF cachedData # Null
        THEN Reply(file, c1, 200,
                   [source |-> "cache"] @@ Pick(cachedData, {"timestamp", "data"}),
                   "snapshot")
        ELSE Reply(file, c1, 500,
                   [error |-> "Failed to fetch from CoinGecko API and no cache available"],
                   "none")

\* coingecko/route.ts:83-153: GET, from the answer of the source on
CoinGeckoGET(file, t, up, w, io, c) ==
    LET live == FetchPrice(up)
        c0 == [c EXCEPT !.attempts = <<"direct">>]
    IN  IF live.ok
        THEN LET wr == writeToCache(file,
                          JSONstringify([timestamp |-> t, data |-> live.data],
                                        <<"timestamp", "data">>), w)
                 c1 == [c0 EXCEPT !.live = TRUE, !.liveData = live.data,
                                  !.write = w.kind]
             IN  IF wr.crashed THEN Dies(wr.file, c1)
                 ELSE IF wr.raised THEN CoinGeckoFallback(wr.file, io, c1)
                 ELSE Reply(wr.file, c1, 200,
                            [source |-> "api", timestamp |-> t, data |-> live.data],
                            "live")
        ELSE CoinGeckoFallback(file, io, Failed(c0, live.error))

(***************************************************************************)
(* The GDP routes.  Four variants of the handler exist in the repository:  *)
(*   imf-cache-first  imf/route.ts:1-308                                   *)
(*   imf-nocache      imf/route.ts:309-492                                 *)
(*   imf-node         convert/[currency]/page.tsx:198-462                  *)
(*   imf-expiry       convert/[currency]/page.tsx:463-704                  *)
(* The three that use a snapshot use the same file, imf_gdp_cache.json in  *)
(* the cache directory, which scripts/prime-cache.js writes as well.       *)
(***************************************************************************)
\* the list with its first two entries exchanged
approachesRelayFirst == <<"allorigins", "direct", "corsproxy">>

\* the transports of the strategy chain, in the order of the list
\* (convert/[currency]/page.tsx:347-397)
approaches == <<"direct", "allorigins", "corsproxy">>
\* the same list in imf/route.ts:371-422 and convert/[currency]/page.tsx:571-622
proxyApproaches == <<"direct", "allorigins", "corsproxy">>

\* numbers of countries with a value for the requested year in a GDP table:
\* one below the minimum, and the minimum
CountryCounts == {MIN_COUNTRIES - 1, MIN_COUNTRIES}

\* what one transport can answer: the request raises (network error, a body
\* that is not JSON), a non-success status, a JSON body with neither table
\* ("other"), a table under datasets.NGDPD, or a table under values.NGDPD.
\* Every value of a table is a number.
ChainAnswers ==
    [kind : {"throws", "status", "other"}, n : {0}]
    \cup [kind : {"datasets", "values"}, n : CountryCounts]

\* the payload extracted from a table relayed by transport s
GdpData(s, a) == [via |-> s, n |-> a.n]

\* one approach of the list: the request and the status check
\* (convert/[currency]/page.tsx:349-396, imf/route.ts:372-421)
Approach(s, a) ==
    CASE a.kind = "throws" -> [ok |-> FALSE, error |-> Err(s, "fetch failed")]
      [] a.kind = "status" -> [ok |-> FALSE, error |-> Err(s, "responded with status")]
      [] OTHER -> [ok |-> TRUE, error |-> NoError]

\* processIMFResponse (convert/[currency]/page.tsx:420-462)
processIMFResponse(s, a) ==
    IF a.kind \in {"datasets", "values"}
    THEN IF a.n < MIN_COUNTRIES
         THEN [ok |-> FALSE, data |-> Null,
               error |-> Err(s, "Insufficient data from IMF API")]
         ELSE [ok |-> TRUE, data |-> GdpData(s, a), error |-> NoError]
    ELSE [ok |-> FALSE, data |-> Null,
          error |-> Err(s, "IMF API response does not contain expected data structure")]

\* the body of the loop of fetchGDPData in imf/route.ts:431-483
ExtractNoCache(s, a) ==
    IF a.kind \in {"datasets", "values"}
    THEN IF a.n < MIN_COUNTRIES
         THEN [ok |-> FALSE, data |-> Null,
               error |-> Err(s, "Insufficient data returned from IMF API")]
         ELSE [ok |-> TRUE, data |-> GdpData(s, a), error |-> NoError]
    ELSE [ok |-> FALSE, data |-> Null,
          error |-> Err(s, "Unexpected response structure from IMF API")]

\* the body of the loop of fetchGDPData in
\* convert/[currency]/page.tsx:631-652: only the datasets table is read, and
\* the number of countries is not checked
ExtractExpiry(s, a) ==
    IF a.kind = "datasets"
    THEN [ok |-> TRUE, data |-> GdpData(s, a), error |-> NoError]
    ELSE [ok |-> FALSE, data |-> Null,
          error |-> Err(s, "Unexpected response structure from IMF API")]

\* the try block of the loop for transport s in variant v
TryApproach(v, s, a) ==
    LET r == Approach(s, a)
    IN  IF ~r.ok THEN [ok |-> FALSE, data |-> Null, error |-> r.error]
        ELSE CASE v = "imf-node" -> processIMFResponse(s, a)
               [] v = "imf-nocache" -> ExtractNoCache(s, a)
               [] OTHER -> ExtractExpiry(s, a)

\* the list a variant iterates over
ApproachList(v) == IF v = "imf-node" THEN approaches ELSE proxyApproaches

\* the catch block keeping the first error: "lastError = lastError || error"
CatchApproachFirst(lastError, error) ==
    IF lastError = NoError THEN error ELSE lastError

\* the catch block of the loop: "lastError = error"
\* (convert/[currency]/page.tsx:409-412, imf/route.ts:484-487)
CatchApproach(lastError, error) == error

\* the position of the loop after the approach at position pos failed
NextApproach(pos) == pos + 1

\* the statement after the loop: "throw lastError || new Error(...)"
\* (convert/[currency]/page.tsx:416, imf/route.ts:491)
ThrowLast(lastError) ==
    IF lastError = NoError
    THEN Err("none", "All approaches to fetch IMF data failed")
    ELSE lastError

\* one pass of the loop of fetchGDPWithProxies / fetchGDPData
\* (convert/[currency]/page.tsx:399-417, imf/route.ts:424-491,
\* convert/[currency]/page.tsx:624-660): the approach at position c.pos is
\* tried with answer a.  If it returns, the function returns its payload
\* (phase "returned"); if it fails the error is logged and kept, and the
\* loop goes on to the next position, or, after the last one, the function
\* raises (phase "threw")
LoopPass(v, c, a) ==
    LET s == ApproachList(v)[c.pos]
        r == TryApproach(v, s, a)
        c1 == [c EXCEPT !.attempts = Append(c.attempts, s)]
    IN  IF r.ok
        THEN [c1 EXCEPT !.phase = "returned", !.live = TRUE, !.liveData = r.data]
        ELSE LET c2 == [c1 EXCEPT !.failures = c.failures + 1,
                                  !.lastFailure = r.error,
                                  !.lastError = CatchApproach(c.lastError, r.error),
                                  !.pos = NextApproach(c.pos)]
             IN  IF c2.pos > Len(ApproachList(v))
                 THEN [c2 EXCEPT !.phase = "threw",
                                 !.chainError = ThrowLast(c2.lastError)]
                 ELSE c2

(***************************************************************************)
(* imf-node: convert/[currency]/page.tsx:275-342.                          *)
(***************************************************************************)
\* convert/[currency]/page.tsx:306-341: the catch blocks of GET
ImfNodeFallback(file, io, c) ==
    LET cachedData == readFromCache(file, io)
        c1 == Read(c, io, cachedData)
    IN  IF cachedData = Raised
        THEN Reply(file, c1, 500, [error |-> "cache read raised"], "none")
        ELSE IF cachedData # Null
        THEN Reply(file, c1, 200,
                   [source |-> "cache"]
                   @@ Pick(cachedData, {"year", "timestamp", "data"}),
                   "snapshot")
        ELSE Reply(file, c1, 500,
                   [error |-> "Failed to fetch from IMF API and no cache available"],
                   "none")

\* convert/[currency]/page.tsx:275-342: GET, once fetchGDPWithProxies has
\* returned or raised
ImfNodeGET(file, t, c, w, io) ==
    IF c.live
    THEN LET wr == writeToCache(file,
                      JSONstringify([year |-> "currentYear", timestamp |-> t,
                                     data |-> c.liveData],
                                    <<"year", "timestamp", "data">>), w)
             c1 == [c EXCEPT !.write = w.kind]
         IN  IF wr.crashed THEN Dies(wr.file, c1)
             ELSE IF wr.raised THEN ImfNodeFallback(wr.file, io, c1)
             ELSE Reply(wr.file, c1, 200,
                        [source |-> "imf", year |-> "currentYear",
                         timestamp |-> t, data |-> c.liveData],
                        "live")
    ELSE ImfNodeFallback(file, io, c)

(***************************************************************************)
(* imf-nocache: imf/route.ts:335-364.  No snapshot is read or written.     *)
(***************************************************************************)
\* imf/route.ts:335-364: GET, once fetchGDPData has returned or raised
ImfNoCacheGET(file, t, c) ==
    IF c.live
    THEN Reply(file, c, 200,
               [year |-> "currentYear", timestamp |-> t, source |-> "imf",
                data |-> c.liveData],
               "live")
    ELSE Reply(file, c, 500,
               [error |-> "Failed to fetch from IMF API and no cache available"],
               "none")

(***************************************************************************)
(* imf-cache-first: imf/route.ts:1-308.                                    *)
(***************************************************************************)
\* EUROZONE_COUNTRIES (imf/route.ts:35-38)
EUROZONE_COUNTRIES ==
    {"AUT", "BEL", "CYP", "EST", "FIN", "FRA", "DEU", "GRC", "IRL", "ITA",
     "LVA", "LTU", "LUX", "MLT", "NLD", "PRT", "SVK", "SVN", "ESP"}

\* what the single direct request of this variant can give: it raises
\* (network error, abort at the per-request timeout, body that is not JSON),
\* a non-success status, a JSON body without "values", a table under
\* values.NGDPD, a table directly under values ("flat"), or a body that
\* does not arrive before the global timeout ("hang")
DirectAnswers ==
    [kind : {"throws", "status", "other", "hang"}, n : {0}]
    \cup [kind : {"values", "flat"}, n : CountryCounts]

\* isCacheValid with the comparison "cacheAge <= sevenDaysInMs"
isCacheValidInclusive(cachedData, t) ==
    /\ "timestamp" \in DOMAIN cachedData
    /\ t - cachedData.timestamp <= sevenDaysInMs

\* isCacheValid (imf/route.ts:79-84)
isCacheValid(cachedData, t) ==
    /\ "timestamp" \in DOMAIN cachedData
    /\ t - cachedData.timestamp < sevenDaysInMs

\* fetchGdpData (imf/route.ts:87-155): null for every failure, otherwise
\* the values extracted, however few
fetchGdpData(a) ==
    IF a.kind \in {"values", "flat"} THEN GdpData("direct", a) ELSE Null

\* the body of a response built from a snapshot record
\* (imf/route.ts:172-178, 210-216, 250-256, 292-299)
CacheFirstCached(cachedData, source) ==
    Pick(cachedData, {"data", "year", "timestamp", "eurozoneCountries"})
    @@ [source |-> source]

\* imf/route.ts:283-307: the catch block of GET
CacheFirstCatch(file, io, c, message) ==
    LET cachedData == readFromCache(file, io)
        c1 == Read(c, io, cachedData)
    IN  IF cachedData = Raised
        THEN Reply(file, c1, 500, [error |-> "cache read raised"], "none")
        ELSE IF cachedData # Null
        THEN Reply(file, c1, 200,
                   CacheFirstCached(cachedData, "cache (error)")
                   @@ [error |-> message],
                   "snapshot")
        ELSE Reply(file, c1, 500, [error |-> message], "none")

\* the second read of the snapshot with the validity test of the first: a
\* record that the first read found and isCacheValid rejected is rejected
\* again
CacheFirstRereadValid(file, io, c, failBody) ==
    LET cachedData == readFromCache(file, io)
        c1 == Read(c, io, cachedData)
    IN  IF cachedData = Raised
        THEN CacheFirstCatch(file, io, c1, "cache read raised")
        ELSE IF cachedData # Null /\ c.read # "record"
        THEN Reply(file, c1, 200, CacheFirstCached(cachedData, "cache"), "snapshot")
        ELSE Reply(file, c1, 500, failBody, "none")

\* imf/route.ts:200-224 and 239-268: the snapshot is read again after a
\* failed fetch (failBody is the body of the response without a snapshot)
CacheFirstReread(file, io, c, failBody) ==
    LET cachedData == readFromCache(file, io)
        c1 == Read(c, io, cachedData)
    IN  IF cachedData = Raised
        THEN CacheFirstCatch(file, io, c1, "cache read raised")
        ELSE IF cachedData # Null
        THEN Reply(file, c1, 200, CacheFirstCached(cachedData, "cache"), "snapshot")
        ELSE Reply(file, c1, 500, failBody, "none")

\* imf/route.ts:158-179: GET up to the fetch; io is the outcome of reading
\* the snapshot file
ImfCacheFirstArrive(file, t, io, c) ==
    LET cachedData == readFromCache(file, io)
        c1 == Read(c, io, cachedData)
    IN  IF cachedData = Raised
        THEN CacheFirstCatch(file, io, c1, "cache read raised")
        ELSE IF cachedData # Null /\ isCacheValid(cachedData, t)
        THEN Reply(file, c1, 200, CacheFirstCached(cachedData, "cache"), "snapshot")
        ELSE [file |-> file, resp |-> NoResp, cycle |-> c1]

\* imf/route.ts:181-308: GET from the end of the race between the fetch and
\* the global timeout on
ImfCacheFirstGET(file, t, a, w, io, c) ==
    LET gdpData == fetchGdpData(a)
        c1 == [c EXCEPT !.attempts = <<"direct">>]
        combinedData == [timestamp |-> t, year |-> "previousYear",
                         data |-> gdpData,
                         eurozoneCountries |-> EUROZONE_COUNTRIES]
    IN  IF a.kind = "hang"
        THEN CacheFirstCatch(file, io,
                 Failed([c1 EXCEPT !.late.state = "pending"],
                        Err("direct", "API request timed out")),
                 "API request timed out")
        ELSE IF gdpData = Null
        THEN CacheFirstReread(file, io,
                 Failed(c1, Err("direct", "fetch returned null")),
                 [error |-> "Failed to fetch from IMF API and no cache available"])
        ELSE IF gdpData.n < MIN_COUNTRIES
        THEN CacheFirstReread(file, io,
                 Failed(c1, Err("direct", "low country count")),
                 combinedData
                 @@ [source |-> "IMF API (insufficient data)",
                     error |-> "fewer countries than the expected minimum of 20"])
        ELSE LET wr == writeToCache(file,
                          JSONstringify(combinedData,
                              <<"timestamp", "year", "data", "eurozoneCountries">>), w)
                 c2 == [c1 EXCEPT !.live = TRUE, !.liveData = gdpData,
                                  !.write = w.kind]
             IN  IF wr.crashed THEN Dies(wr.file, c2)
                 ELSE IF wr.raised
                 THEN CacheFirstCatch(wr.file, io, c2, "cache write raised")
                 ELSE Reply(wr.file, c2, 200,
                            combinedData @@ [source |-> "IMF API"], "live")

\* imf/route.ts:87-155 and 191-198: the fetch that lost the race against
\* the global timeout runs on, and fetchGdpData returns its value to the
\* promise gdpDataPromise, which GET no longer awaits
LateResponseCached(file, r, c, a) ==
    LET gdpData == fetchGdpData(a)
        combinedData == [timestamp |-> c.at, year |-> "previousYear",
                         data |-> gdpData,
                         eurozoneCountries |-> EUROZONE_COUNTRIES]
    IN  [file |-> IF gdpData = Null THEN file
                  ELSE [exists |-> TRUE,
                        text |-> JSONstringify(combinedData,
                            <<"timestamp", "year", "data", "eurozoneCountries">>)],
         resp |-> r,
         cycle |-> [c EXCEPT !.late = [state |-> "settled", data |-> gdpData]]]
LateResponse(file, r, c, a) ==
    [file |-> file,
     resp |-> r,
     cycle |-> [c EXCEPT !.late = [state |-> "settled",
                                   data |-> fetchGdpData(a)]]]

(***************************************************************************)
(* imf-expiry: convert/[currency]/page.tsx:463-704.                        *)
(***************************************************************************)
\* the log line of convert/[currency]/page.tsx:499 evaluates
\* new URL(Request.prototype.url): the property is read off the prototype,
\* not off a request, so whether the line yields a string or raises is
\* decided by the Request implementation of the runtime
UrlLogOutcomes == {"value", "raises"}

\* getCachedData (convert/[currency]/page.tsx:664-687): the record is
\* returned in both branches of the expiry test
getCachedData(file, t, io) ==
    IF ~file.exists THEN Null
    ELSE IF io = "eio" THEN Null
    ELSE LET parsed == JSONparse(file.text)
         IN  IF ~parsed.ok THEN Null
             ELSE IF /\ "timestamp" \in DOMAIN parsed.value
                     /\ t - parsed.value.timestamp <= CACHE_EXPIRY_MS
                  THEN parsed.value
                  ELSE parsed.value

\* cacheData (convert/[currency]/page.tsx:690-704)
cacheData(file, text, w) ==
    LET r == WriteFileSync(file, text, w)
    IN  [file |-> r.file, raised |-> FALSE, crashed |-> r.crashed]

\* convert/[currency]/page.tsx:560-563: the outer catch block of GET
ExpiryUnexpected(file, c) ==
    Reply(file, c, 500, [error |-> "An unexpected error occurred"], "none")

\* convert/[currency]/page.tsx:497-525: GET up to the fetch
ImfExpiryArrive(file, t, url, io, c) ==
    IF url = "raises" THEN ExpiryUnexpected(file, c)
    ELSE LET cachedData == getCachedData(file, t, io)
             c1 == Read(c, io, cachedData)
         IN  IF cachedData = Raised THEN ExpiryUnexpected(file, c1)
             ELSE IF cachedData # Null
             THEN Reply(file, c1, 200,
                        Pick(cachedData, {"year", "timestamp", "data"})
                        @@ [source |-> "cache"],
                        "snapshot")
             ELSE [file |-> file, resp |-> NoResp, cycle |-> c1]

\* convert/[currency]/page.tsx:525-559: GET once fetchGDPData has returned
\* or raised; cachedData is what getCachedData gave when the request
\* arrived, and the request got here because that was null
ImfExpiryGET(file, t, c, w) ==
    IF c.live
    THEN LET wr == cacheData(file,
                      JSONstringify([year |-> "currentYear", timestamp |-> t,
                                     data |-> c.liveData],
                                    <<"year", "timestamp", "data">>), w)
             c1 == [c EXCEPT !.write = w.kind]
         IN  IF wr.crashed THEN Dies(wr.file, c1)
             ELSE IF wr.raised THEN ExpiryUnexpected(wr.file, c1)
             ELSE Reply(wr.file, c1, 200,
                        [year |-> "currentYear", timestamp |-> t,
                         source |-> "imf", data |-> c.liveData],
                        "live")
    ELSE LET cachedData == IF c.read = "record"
                           THEN JSONparse(c.before.text).value ELSE Null
         IN  IF cachedData # Null
             THEN Reply(file, c, 200,
                        Pick(cachedData, {"year", "timestamp", "data"})
                        @@ [source |-> "cache (error)"],
                        "snapshot")
             ELSE Reply(file, c, 500,
                        [error |-> "Failed to fetch from IMF API and no cache available"],
                        "none")

(***************************************************************************)
(* scripts/prime-cache.js.                                                 *)
(***************************************************************************)
\* primeData.data (scripts/prime-cache.js:17-50)
primeData == [via |-> "prime-cache", n |-> PRIME_COUNTRIES]

\* scripts/prime-cache.js:53-65: the hard-coded table is written over the
\* snapshot file, whatever the file holds; nothing catches a failure
PrimeCache(file, t, w) ==
    LET r == WriteFileSync(file,
                 JSONstringify([year |-> "2024", timestamp |-> t,
                                data |-> primeData],
                               <<"year", "timestamp", "data">>), w)
    IN  [file |-> r.file, resp |-> NoResp,
         cycle |-> [NoCycle EXCEPT !.handler = "prime-cache", !.domain = "gdp",
                                   !.at = t,
                                   !.phase = IF r.raised \/ r.crashed
                                             THEN "crashed" ELSE "done",
                                   !.before = file, !.write = w.kind]]

(***************************************************************************)
(* The pages that rank the currencies: src/app/page.tsx (it fetches the    *)
(* CoinGecko API and the static file /data/imf-gdp-data.json) and the      *)
(* component of unnamed/part_002 (it fetches the routes /api/coingecko and *)
(* /api/imf).  A page runs from one await to the next in one step.  What   *)
(* the two fetches answer is the input of the steps.  An entity keeps its  *)
(* code, economicSize, type and rank; name, satsPerUnit and valueOfOneSat  *)
(* are left out.                                                           *)
(***************************************************************************)
\* the price every quote of the model gives
QuotePrice == 60
\* page.tsx:284, part_002:197 (30 in the source): the number of fiat
\* currencies listed, scaled to the number of currencies of the model
TOP_CURRENCIES_LIMIT == 2
\* page.tsx:384, part_002:292
estimatedCirculatingSupply == 19500000
\* page.tsx:358, 369, part_002:445, 457: billions to absolute values
Billion == 1000000000

\* the number NaN, and undefined where it is an operand of arithmetic
NaN == 0 - 1
Plus(a, b) == IF a = NaN \/ b = NaN THEN NaN ELSE a + b
Times(a, b) == IF a = NaN \/ b = NaN THEN NaN ELSE a * b

\* the countries of the model in the order of the payload's members, the
\* GDP a record can carry (in billions; 0: the payload has no record of the
\* country) and the two ways a payload writes a record: the number itself
\* (the routes of this repository) or an object with the number as its gdp
\* member (what part_002 reads)
CountryOrder == <<"USA", "US", "JPN", "GBR", "DEU", "FRA", "EMU">>
Countries == {CountryOrder[i] : i \in DOMAIN CountryOrder}
GdpTables ==
    {d \in [Countries -> {0, 1, 2}] :
        \A c \in Countries \ {"USA", "JPN"} : d[c] <= 1}
GdpPayloads == [shape : {"number", "object"}, data : GdpTables]
GdpAnswers ==
    [kind : {"throws", "status", "nodata"}, body : {Null}]
    \cup [kind : {"ok"}, body : GdpPayloads]

\* the codes a price payload may quote and the market capitalisations of
\* the metals: the product of page.tsx:407 and 438 is beyond the integers of
\* the model, so its magnitude is drawn from two sizes, one under and one
\* over the bitcoin's
QuoteCodes == {"usd", "eur", "jpy", "gbp", "xau", "xag"}
MetalCaps == {500000000, 1500000000}
\* at most one quote of a payload carries, instead of the price, zero or a
\* negative number
OddQuotes ==
    {[code |-> "none", value |-> 0]}
    \cup [code : {"jpy", "xau"}, value : {0, 0 - QuotePrice}]
\* the bitcoin member of a price payload: the codes quoted, the quote that
\* is not a price, and the magnitudes the products for gold and silver take
\* when they are numbers
BitcoinMembers ==
    {b \in [quotes : SUBSET QuoteCodes, odd : OddQuotes,
            gold : MetalCaps, silver : MetalCaps] :
        /\ "xau" \notin b.quotes => b.gold = 500000000
        /\ "xag" \notin b.quotes => b.silver = 500000000
        /\ b.odd.code # "none" => b.odd.code \in b.quotes}
PagePriceAnswers ==
    [kind : {"throws", "status", "nobitcoin"}, source : {"api"}, bitcoin : {Null}]
    \cup [kind : {"ok"}, source : {"api", "cache"}, bitcoin : BitcoinMembers]

\* bitcoinData.bitcoin[code]: undefined reads as NaN in the arithmetic
Quoted(bitcoin, code) == code \in bitcoin.quotes
Quote(bitcoin, code) ==
    IF ~Quoted(bitcoin, code) THEN NaN
    ELSE IF bitcoin.odd.code = code THEN bitcoin.odd.value
    ELSE QuotePrice
\* a value that a test such as if (btcPrice) or a && b takes for true
Truthy(v) == v # NaN /\ v # 0
\* a / b, kept as the pair of its operands
Quotient(a, b) == [num |-> a, den |-> b]

\* page.tsx:137-232: the table, for the countries of the model
CountryCodeToCurrencyCode ==
    [c \in Countries |->
        CASE c \in {"USA", "US"} -> "USD"
          [] c = "JPN" -> "JPY"
          [] c = "GBR" -> "GBP"
          [] OTHER -> "EUR"]
\* page.tsx:249-251
mapCountryCodeToCurrency(countryCode) ==
    IF countryCode \in DOMAIN CountryCodeToCurrencyCode
    THEN CountryCodeToCurrencyCode[countryCode] ELSE ""
\* page.tsx:243-246, 254-256: the list of the page has Croatia too
isEurozoneCountry(countryCode) ==
    countryCode \in EUROZONE_COUNTRIES \cup {"HRV"}
\* currencyCode.toLowerCase()
toLowerCase(currencyCode) ==
    CASE currencyCode = "USD" -> "usd"
      [] currencyCode = "JPY" -> "jpy"
      [] currencyCode = "GBP" -> "gbp"
      [] currencyCode = "EUR" -> "eur"
      [] OTHER -> "none"

\* obj[key] = val on an object whose keys are kept in insertion order
Put(obj, key, val) ==
    IF \E i \in DOMAIN obj : obj[i].key = key
    THEN [i \in DOMAIN obj |->
             IF obj[i].key = key THEN [key |-> key, val |-> val] ELSE obj[i]]
    ELSE Append(obj, [key |-> key, val |-> val])

\* Object.entries(data): the records of the payload in its order
Entries(data) == SelectSeq(CountryOrder, LAMBDA c : data[c] # 0)

\* whether the page finds a number in a record: page.tsx reads the record
\* itself (typeof gdpValue === 'number', page.tsx:367), part_002 its gdp
\* member (part_002:444, 455)
ReadsNumber(client, shape) ==
    IF client = "page" THEN shape = "number" ELSE shape = "object"

\* one pass of a loop that keeps the first record mapped to a currency
GdpLoopPassFirst(client, gdp, acc, countryCode) ==
    LET isNumber == ReadsNumber(client, gdp.shape)
        absolute == IF isNumber THEN gdp.data[countryCode] * Billion ELSE NaN
        currencyCode == mapCountryCodeToCurrency(countryCode)
    IN  [processed |-> IF /\ currencyCode # "" /\ isNumber
                          /\ \A i \in DOMAIN acc.processed :
                                acc.processed[i].key # currencyCode
                       THEN Put(acc.processed, currencyCode, absolute)
                       ELSE acc.processed,
         total |-> IF isEurozoneCountry(countryCode)
                      /\ (client = "page" \/ isNumber)
                   THEN Plus(acc.total, absolute)
                   ELSE acc.total]

\* page.tsx:355-372, part_002:442-461: one pass of the loop over the records.
\* page.tsx adds a Eurozone record to the total without the typeof test, so
\* a record that is not a number makes the total NaN
GdpLoopPass(client, gdp, acc, countryCode) ==
    LET isNumber == ReadsNumber(client, gdp.shape)
        absolute == IF isNumber THEN gdp.data[countryCode] * Billion ELSE NaN
        currencyCode == mapCountryCodeToCurrency(countryCode)
    IN  [processed |-> IF currencyCode # "" /\ isNumber
                       THEN Put(acc.processed, currencyCode, absolute)
                       ELSE acc.processed,
         total |-> IF isEurozoneCountry(countryCode)
                      /\ (client = "page" \/ isNumber)
                   THEN Plus(acc.total, absolute)
                   ELSE acc.total]

RECURSIVE GdpLoop(_, _, _)
GdpLoop(client, gdp, entries) ==
    IF entries = <<>> THEN [processed |-> <<>>, total |-> 0]
    ELSE GdpLoopPass(client, gdp,
                     GdpLoop(client, gdp, SubSeq(entries, 1, Len(entries) - 1)),
                     entries[Len(entries)])

\* page.tsx:345-375, part_002:411-468: processedGdpData, with the Eurozone
\* total under the key EUR
processGdp(client, gdp) ==
    LET acc == GdpLoop(client, gdp, Entries(gdp.data))
    IN  Put(acc.processed, "EUR", acc.total)

\* (a, b) => b.economicSize - a.economicSize, as the sign of the
\* difference; sort reads a NaN as +0
compareFn(a, b) ==
    IF a.economicSize = NaN \/ b.economicSize = NaN THEN 0
    ELSE IF b.economicSize > a.economicSize THEN 1
    ELSE IF b.economicSize < a.economicSize THEN 0 - 1
    ELSE 0

\* Array.prototype.sort, stable: an element goes before the trailing
\* elements that the comparison puts after it
RECURSIVE Insert(_, _)
Insert(s, e) ==
    IF s = <<>> \/ compareFn(s[Len(s)], e) <= 0 THEN Append(s, e)
    ELSE Append(Insert(SubSeq(s, 1, Len(s) - 1), e), s[Len(s)])
RECURSIVE sort(_)
sort(s) ==
    IF s = <<>> THEN <<>>
    ELSE Insert(sort(SubSeq(s, 1, Len(s) - 1)), s[Len(s)])

\* Array.prototype.slice(0, n)
slice(s, n) == SubSeq(s, 1, IF Len(s) < n THEN Len(s) ELSE n)

Entity(code, economicSize, type, satsPerUnit) ==
    [code |-> code, economicSize |-> economicSize, type |-> type, rank |-> 0,
     satsPerUnit |-> satsPerUnit]

\* page.tsx:399-459, part_002:359-397 and 542-576: the rows of gold and
\* silver.  A metal is listed when its quote passes the test (page.tsx:399,
\* 430: if (bitcoinData.bitcoin.xau); part_002:359, 374: xau && usd); the
\* market capitalisation has the sign of the price usd / xau and is NaN
\* when the usd price is undefined
MarketCap(bitcoin, code, magnitude) ==
    IF Quote(bitcoin, "usd") = NaN THEN NaN
    ELSE IF Quote(bitcoin, code) < 0 THEN 0 - magnitude
    ELSE magnitude
metalRows(bitcoin) ==
    (IF Truthy(Quote(bitcoin, "xau"))
     THEN <<Entity("XAU", MarketCap(bitcoin, "xau", bitcoin.gold), "metal",
                   Quotient(100000000, Quote(bitcoin, "xau")))>>
     ELSE <<>>)
    \o (IF Truthy(Quote(bitcoin, "xag"))
        THEN <<Entity("XAG", MarketCap(bitcoin, "xag", bitcoin.silver), "metal",
                      Quotient(100000000, Quote(bitcoin, "xag")))>>
        ELSE <<>>)

\* whether the page finds a price for the currency: page.tsx:474-477
\* (!btcPrice), part_002:497-505 and 593 (!== undefined)
HasPrice(client, bitcoin, currencyCode) ==
    IF client = "page"
    THEN Truthy(Quote(bitcoin, toLowerCase(currencyCode)))
    ELSE Quoted(bitcoin, toLowerCase(currencyCode))

\* a loop that lists a currency without a price too
fiatLoopUnchecked(client, processed, bitcoin) ==
    LET fiatKeys == SelectSeq(processed, LAMBDA e : e.key \notin {"BTC", "XAU", "XAG"})
    IN  [fiatCurrencies |->
             [i \in DOMAIN fiatKeys |->
                 Entity(fiatKeys[i].key,
                        IF fiatKeys[i].val = NaN THEN 0 ELSE fiatKeys[i].val,
                        "fiat",
                        Quotient(100000000,
                                 Quote(bitcoin, toLowerCase(fiatKeys[i].key))))],
         apiErrors |-> {}]

\* page.tsx:464-502, part_002:579-616: the loop over the keys of
\* processedGdpData; gdpInUSD is processedGdpData[currencyCode] || 0
fiatLoop(client, processed, bitcoin) ==
    LET fiatKeys == SelectSeq(processed, LAMBDA e : e.key \notin {"BTC", "XAU", "XAG"})
        priced == SelectSeq(fiatKeys, LAMBDA e : HasPrice(client, bitcoin, e.key))
    IN  [fiatCurrencies |->
             [i \in DOMAIN priced |->
                 Entity(priced[i].key,
                        IF priced[i].val = NaN THEN 0 ELSE priced[i].val,
                        "fiat",
                        Quotient(100000000,
                                 Quote(bitcoin, toLowerCase(priced[i].key))))],
         apiErrors |->
             {fiatKeys[i].key : i \in {j \in DOMAIN fiatKeys :
                                          ~HasPrice(client, bitcoin, fiatKeys[j].key)}}]

\* the cap taken after the merge
topAndRankMerged(allCurrencies, fiatCurrencies) ==
    LET sortedCurrencies ==
            slice(sort(allCurrencies \o sort(fiatCurrencies)),
                  TOP_CURRENCIES_LIMIT)
    IN  [i \in DOMAIN sortedCurrencies |->
            [sortedCurrencies[i] EXCEPT !.rank = i]]

\* page.tsx:504-525, part_002:621-650: the top fiat currencies are added to
\* the others, the whole is sorted and ranked
topAndRank(allCurrencies, fiatCurrencies) ==
    LET topFiatCurrencies == slice(sort(fiatCurrencies), TOP_CURRENCIES_LIMIT)
        sortedCurrencies == sort(allCurrencies \o topFiatCurrencies)
    IN  [i \in DOMAIN sortedCurrencies |->
            [sortedCurrencies[i] EXCEPT !.rank = i]]

\* the state of a page: the client, where it is (phase), what its two
\* fetches gave (got), the payloads it holds, the error and the diagnostics it shows, whether setCurrencies has
\* run and with what list
NoPage ==
    [client |-> "none", phase |-> "idle", source |-> "none",
     got |-> [price |-> "none", gdp |-> "none"],
     bitcoin |-> Null, gdp |-> Null,
     error |-> "none", apiErrors |-> {}, published |-> FALSE,
     currencies |-> <<>>]

\* setError(...); setLoading(false)
PageError(p, error) == [p EXCEPT !.phase = "done", !.error = error]
\* setCurrencies(sortedCurrencies); setLoading(false)
Publish(p, currencies, apiErrors) ==
    [p EXCEPT !.phase = "done", !.published = TRUE,
              !.currencies = currencies,
              !.apiErrors = p.apiErrors \cup apiErrors]

\* page.tsx:59-81 and 530-534: fetchData once the price fetch has answered
PagePrice(p, a) ==
    IF a.kind \in {"throws", "status"}
    THEN PageError(p, "Failed to load data: Failed to fetch Bitcoin data")
    ELSE [p EXCEPT !.phase = "gdp", !.bitcoin = a.bitcoin]

\* page.tsx:325-535: loadData once fetchData has returned
loadData(p, gdp) ==
    LET bitcoin == p.bitcoin
        btcPriceUSD == Quote(bitcoin, "usd")
        loop == fiatLoop("page", processGdp("page", gdp), bitcoin)
        allCurrencies ==
            <<Entity("BTC", Times(btcPriceUSD, estimatedCirculatingSupply),
                     "crypto", Quotient(100000000, 1))>>
            \o metalRows(bitcoin)
    IN  Publish([p EXCEPT !.gdp = gdp],
                topAndRank(allCurrencies, loop.fiatCurrencies),
                loop.apiErrors)

\* page.tsx:83-134 and 325-535: fetchData once the fetch of the file has
\* answered, and loadData after it
PageGdp(p, a) ==
    IF a.kind # "ok"
    THEN PageError(p, "Failed to load data: Failed to fetch GDP data")
    ELSE IF p.bitcoin = Null
    THEN PageError(p, "Failed to load data: Cannot read properties of undefined (reading 'usd')")
    ELSE loadData(p, a.body)

\* part_002:248-397: fetchData once the fetch of /api/coingecko has answered
Part2Price(p, a) ==
    LET cached == IF a.source = "cache" THEN {"bitcoin"} ELSE {}
    IN  IF a.kind \in {"throws", "status"}
        THEN [PageError(p, "Failed to load Bitcoin price data: Failed to fetch CoinGecko data")
                 EXCEPT !.apiErrors = {"bitcoin"}]
        ELSE IF a.kind = "nobitcoin"
        THEN [PageError(p, "Failed to load Bitcoin price data: Invalid Bitcoin data format from CoinGecko API")
                 EXCEPT !.apiErrors = {"bitcoin"}, !.source = a.source]
        ELSE IF ~Quoted(a.bitcoin, "usd")
        THEN [PageError(p, "Failed to load Bitcoin price data: Bitcoin price in USD not found in CoinGecko data")
                 EXCEPT !.apiErrors = {"bitcoin"}, !.source = a.source,
                        !.bitcoin = a.bitcoin]
        ELSE [p EXCEPT !.phase = "gdp", !.bitcoin = a.bitcoin,
                       !.source = a.source,
                       !.apiErrors =
                           cached
                           \cup (IF Truthy(Quote(a.bitcoin, "xau"))
                                 THEN {} ELSE {"gold"})
                           \cup (IF Truthy(Quote(a.bitcoin, "xag"))
                                 THEN {} ELSE {"silver"})]

\* part_002:409-657: fetchData once the fetch of /api/imf has answered
Part2Gdp(p, a) ==
    IF a.kind # "ok"
    THEN [PageError(p, "Failed to load GDP data")
             EXCEPT !.apiErrors = p.apiErrors \cup {"gdp"}]
    ELSE LET bitcoin == p.bitcoin
             loop == fiatLoop("part_002", processGdp("part_002", a.body), bitcoin)
             allCurrencies ==
                 <<Entity("BTC",
                          Times(Quote(bitcoin, "usd"), estimatedCirculatingSupply),
                          "crypto", Quotient(100000000, 1))>>
                 \o metalRows(bitcoin)
         IN  Publish([p EXCEPT !.gdp = a.body],
                     topAndRank(allCurrencies, loop.fiatCurrencies),
                     loop.apiErrors)

\* the effect of page.tsx runs: loadData calls fetchData, which fetches the
\* CoinGecko API
PageLoad ==
    /\ page.phase = "idle"
    /\ page' = [NoPage EXCEPT !.client = "page", !.phase = "price"]
    /\ UNCHANGED <<now, files, resp, cycle, conv, race, og>>

\* the CoinGecko API answers page.tsx
PagePriceAnswer ==
    /\ page.client = "page" /\ page.phase = "price"
    /\ \E a \in {x \in PagePriceAnswers : x.source = "api"} :
          page' = [PagePrice(page, a) EXCEPT !.got.price = a.kind]
    /\ UNCHANGED <<now, files, resp, cycle, conv, race, og>>

\* the fetch of /data/imf-gdp-data.json answers page.tsx
PageGdpAnswer ==
    /\ page.client = "page" /\ page.phase = "gdp"
    /\ \E a \in GdpAnswers : page' = [PageGdp(page, a) EXCEPT !.got.gdp = a.kind]
    /\ UNCHANGED <<now, files, resp, cycle, conv, race, og>>

\* the effect of part_002 runs: fetchData fetches /api/coingecko
Part2Load ==
    /\ page.phase = "idle"
    /\ page' = [NoPage EXCEPT !.client = "part_002", !.phase = "price"]
    /\ UNCHANGED <<now, files, resp, cycle, conv, race, og>>

\* /api/coingecko answers part_002
Part2PriceAnswer ==
    /\ page.client = "part_002" /\ page.phase = "price"
    /\ \E a \in PagePriceAnswers : page' = [Part2Price(page, a) EXCEPT !.got.price = a.kind]
    /\ UNCHANGED <<now, files, resp, cycle, conv, race, og>>

\* /api/imf answers part_002
Part2GdpAnswer ==
    /\ page.client = "part_002" /\ page.phase = "gdp"
    /\ \E a \in GdpAnswers : page' = [Part2Gdp(page, a) EXCEPT !.got.gdp = a.kind]
    /\ UNCHANGED <<now, files, resp, cycle, conv, race, og>>

NextPage ==
    \/ PageLoad
    \/ PagePriceAnswer
    \/ PageGdpAnswer
    \/ Part2Load
    \/ Part2PriceAnswer
    \/ Part2GdpAnswer


(***************************************************************************)
(* Numbers of the unit converter (part_001).  A JavaScript number is an    *)
(* IEEE 754 double: a sign, a significand of at most 53 bits and a power   *)
(* of two, and every * and / rounds its exact result to the nearest such   *)
(* number, to the even significand on a tie.  Significands and the exact   *)
(* results before rounding are naturals kept as NLimbs digits of base      *)
(* Base, the least significant first.  The numbers of the model are far    *)
(* from the overflow and the underflow of the format.                      *)
(***************************************************************************)
\* bits of a digit, and the base 2^LimbBits
LimbBits == 11
Base == 2048
\* digits of a natural: room for a significand times a natural of two digits
NLimbs == 7
\* bits of the significand of a double
Precision == 53
Limbs == 1..NLimbs

\* the digits d[1], ..., d[NLimbs] as a sequence
Digits(d) == SubSeq(d, 1, NLimbs)
\* the digit of x at place i, 0 beyond the digits kept
At(x, i) == IF i \in Limbs THEN x[i] ELSE 0
\* the natural n < Base^3 as digits
BigOf(n) ==
    Digits([i \in Limbs |->
               CASE i = 1 -> n % Base
                 [] i = 2 -> (n \div Base) % Base
                 [] i = 3 -> (n \div (Base * Base)) % Base
                 [] OTHER -> 0])
\* the value of a natural of at most two digits
Small(x) == x[1] + x[2] * Base
BigIsZero(x) == \A i \in Limbs : x[i] = 0
BigOdd(x) == x[1] % 2 = 1

\* x * k for a natural k of at most two digits
RECURSIVE MulFrom(_, _, _, _)
MulFrom(x, k, i, carry) ==
    IF i > NLimbs THEN <<>>
    ELSE LET t == x[i] * k + carry
         IN  <<t % Base>> \o MulFrom(x, k, i + 1, t \div Base)
BigMul(x, k) == MulFrom(x, k, 1, 0)

\* x + 1
BigInc(x) ==
    LET low == CHOOSE i \in Limbs :
                   /\ x[i] # Base - 1
                   /\ \A j \in 1..(i - 1) : x[j] = Base - 1
    IN  Digits([i \in Limbs |->
                   IF i < low THEN 0 ELSE IF i = low THEN x[i] + 1 ELSE x[i]])

\* x - y for x >= y
RECURSIVE SubFrom(_, _, _, _)
SubFrom(x, y, i, borrow) ==
    IF i > NLimbs THEN <<>>
    ELSE LET t == x[i] - y[i] - borrow
         IN  IF t < 0 THEN <<t + Base>> \o SubFrom(x, y, i + 1, 1)
             ELSE <<t>> \o SubFrom(x, y, i + 1, 0)
BigSub(x, y) == SubFrom(x, y, 1, 0)

\* x <= y
BigLeq(x, y) ==
    \/ x = y
    \/ LET hi == CHOOSE i \in Limbs :
                     /\ x[i] # y[i]
                     /\ \A j \in (i + 1)..NLimbs : x[j] = y[j]
       IN  x[hi] < y[hi]

\* the quotient and the remainder of x by a natural k > 0 of at most two
\* digits
RECURSIVE DivDown(_, _, _, _)
DivDown(x, k, i, rem) ==
    IF i = 0 THEN [q |-> <<>>, r |-> rem]
    ELSE LET t == rem * Base + x[i]
             rest == DivDown(x, k, i - 1, t % k)
         IN  [q |-> Append(rest.q, t \div k), r |-> rest.r]
BigDiv(x, k) == DivDown(x, k, NLimbs, 0)

\* x \div 2^s and x * 2^s
ShiftRight(x, s) ==
    LET ls == s \div LimbBits
        bs == s % LimbBits
    IN  Digits([i \in Limbs |->
                   (At(x, i + ls) \div 2 ^ bs)
                   + (At(x, i + ls + 1) % 2 ^ bs) * 2 ^ (LimbBits - bs)])
ShiftLeft(x, s) ==
    LET ls == s \div LimbBits
        bs == s % LimbBits
    IN  Digits([i \in Limbs |->
                   ((At(x, i - ls) * 2 ^ bs) % Base)
                   + (At(x, i - ls - 1) \div 2 ^ (LimbBits - bs))])

\* the number of bits of x, and for x > 0 the number of its low bits that
\* are 0
BitLen(x) ==
    IF BigIsZero(x) THEN 0
    ELSE LET hi == CHOOSE i \in Limbs :
                       x[i] # 0 /\ \A j \in (i + 1)..NLimbs : x[j] = 0
             b == CHOOSE n \in 1..LimbBits :
                      x[hi] < 2 ^ n /\ x[hi] >= 2 ^ (n - 1)
         IN  (hi - 1) * LimbBits + b
TrailingZeros(x) ==
    LET lo == CHOOSE i \in Limbs : x[i] # 0 /\ \A j \in 1..(i - 1) : x[j] = 0
        z == CHOOSE n \in 0..(LimbBits - 1) :
                 x[lo] % 2 ^ n = 0 /\ x[lo] % 2 ^ (n + 1) # 0
    IN  (lo - 1) * LimbBits + z

\* the double (-1)^neg * m * 2^e, written with an odd m; -0 and 0, which ===
\* does not tell apart, are one number
Zero == [neg |-> FALSE, m |-> BigOf(0), e |-> 0]
Canon(neg, m, e) ==
    IF BigIsZero(m) THEN Zero
    ELSE LET z == TrailingZeros(m)
         IN  [neg |-> neg, m |-> ShiftRight(m, z), e |-> e + z]

\* the double nearest to (-1)^neg * (n + f) * 2^e, where 0 < f < 1 when
\* sticky and f = 0 otherwise; a tie goes to the even significand
Round(neg, n, e, sticky) ==
    IF BitLen(n) <= Precision THEN Canon(neg, n, e)
    ELSE LET s == BitLen(n) - Precision
             h == ShiftRight(n, s)
             half == BigOdd(ShiftRight(n, s - 1))
             below == sticky \/ ShiftLeft(ShiftRight(n, s - 1), s - 1) # n
             up == half /\ (below \/ BigOdd(h))
         IN  Canon(neg, IF up THEN BigInc(h) ELSE h, e + s)

\* the double of an integer
FromInt(n) == Canon(n < 0, BigOf(IF n < 0 THEN 0 - n ELSE n), 0)
\* x <= 0
LeqZero(x) == x.neg \/ BigIsZero(x.m)

\* x * y and x / y, where the significand of y has at most two digits and,
\* for /, y is not 0.  The quotient is taken of the significand of x made
\* Precision bits long and shifted by two more digits, which leaves it more
\* than Precision + 1 bits
FMul(x, y) == Round(x.neg # y.neg, BigMul(x.m, Small(y.m)), x.e + y.e, FALSE)
FDiv(x, y) ==
    LET s == Precision - BitLen(x.m) + 2 * LimbBits
        d == BigDiv(ShiftLeft(x.m, s), Small(y.m))
    IN  Round(x.neg # y.neg, d.q, x.e - s - y.e, d.r # 0)

\* |x - y| <= |y| * 2^(-bits) for two doubles that are not 0
Within(x, y, bits) ==
    LET e0 == IF x.e < y.e THEN x.e ELSE y.e
        X == ShiftLeft(x.m, x.e - e0)
        Y == ShiftLeft(y.m, y.e - e0)
        D == IF BigLeq(X, Y) THEN BigSub(Y, X) ELSE BigSub(X, Y)
        gap == (BitLen(x.m) + x.e) - (BitLen(y.m) + y.e)
    IN  /\ x.neg = y.neg
        /\ gap \in {0 - 1, 0, 1}
        /\ BigLeq(D, ShiftRight(Y, bits))

(***************************************************************************)
(* The unit converter: part_001:6-58.                                      *)
(***************************************************************************)
\* part_001:6
SATS_PER_BTC == 100000000
\* part_001:11-13
satsToBtcPerMille(sats) == FDiv(sats, FromInt(1000))
satsToBtc(sats) == FDiv(sats, FromInt(SATS_PER_BTC))
\* part_001:18-20
btcToSats(btc) == FMul(btc, FromInt(SATS_PER_BTC))
\* part_001:27-30
fiatToSats(fiatAmount, fiatPerBtc) ==
    IF LeqZero(fiatPerBtc) THEN Zero
    ELSE FMul(FDiv(fiatAmount, fiatPerBtc), FromInt(SATS_PER_BTC))
\* part_001:37-39
satsToFiat(sats, fiatPerBtc) == FMul(satsToBtc(sats), fiatPerBtc)
\* part_001:46-49
fiatToBtc(fiatAmount, fiatPerBtc) ==
    IF LeqZero(fiatPerBtc) THEN Zero
    ELSE FDiv(fiatAmount, fiatPerBtc)
\* part_001:56-58
btcToFiat(btc, fiatPerBtc) == FMul(btc, fiatPerBtc)

\* the amounts and the prices the conversions are applied to: the integers
\* up to the bounds, and for the amounts their quotients as well
Prices == {FromInt(n) : n \in (0 - MaxPrice)..MaxPrice}
Amounts ==
    {FromInt(n) : n \in (0 - 1)..MaxAmount}
    \cup {FDiv(FromInt(n), FromInt(d)) : n \in 1..MaxAmount, d \in 1..MaxPrice}

\* the converter at rest, and a run of conversions: the price, the
\* functions called, and the amount followed by the value each call returned
NoConv == [price |-> Zero, calls |-> <<>>, values |-> <<>>]
Started(x, price) == [price |-> price, calls |-> <<>>, values |-> <<x>>]
Called(c, fn, value) ==
    [c EXCEPT !.calls = Append(@, fn), !.values = Append(@, value)]
Last(s) == s[Len(s)]

(***************************************************************************)
(* Two requests to /api/coingecko in one Node.js process.  A handler runs  *)
(* without interruption from one await to the next, and fs.readFileSync    *)
(* and fs.writeFileSync are calls without an await: the two cycles         *)
(* interleave at the await of the fetch only.                              *)
(***************************************************************************)
RaceCycles == {"A", "B"}
NoRace ==
    [file |-> NoFile,
     cyc |-> [k \in RaceCycles |-> NoCycle],
     resp |-> [k \in RaceCycles |-> NoResp]]

\* the request of cycle k arrives: coingecko/route.ts:83-100
RaceArrival(r, k, t) ==
    [r EXCEPT !.cyc[k] = Arrival("coingecko", "price", r.file, t)]

\* the handler of cycle k has run from the answer of the source to its
\* response: out is what GET gave; the death of the process ends the other
\* cycle as well
RaceReturn(r, k, out) ==
    [file |-> out.file,
     cyc |-> [j \in RaceCycles |->
                 IF j = k THEN out.cycle
                 ELSE IF out.cycle.phase = "crashed" /\ r.cyc[j].phase = "fetching"
                 THEN [r.cyc[j] EXCEPT !.phase = "crashed"]
                 ELSE r.cyc[j]],
     resp |-> [r.resp EXCEPT ![k] = out.resp]]

(***************************************************************************)
(* The image route, api/og/route.tsx: fetchWithRetry, the rates kept in    *)
(* memory, and GET up to the values it draws.  The route has a clock of    *)
(* its own, in milliseconds.                                               *)
(***************************************************************************)
\* the default of the parameter maxRetries
maxRetries == 3
\* the AbortController timer of one attempt
AttemptTimeout == 3000
CACHE_TTL == 60 * 1000

\* how an attempt ends: a response with a success status, a response with
\* another status, the abort by the timer, a rejection of fetch
AttemptOutcomes == {"ok", "status", "abort", "network"}
ErrorOf(outcome) ==
    IF outcome = "status" THEN "API returned status"
    ELSE IF outcome = "abort" THEN "AbortError"
    ELSE "fetch failed"

NoCall ==
    [maxRetries |-> 0, attempt |-> 0, phase |-> "none", outcomes |-> <<>>,
     waits |-> <<>>, lastError |-> "null"]
\* fetchWithRetry is called: the loop starts, or ends at once at the throw
\* behind it
StartCall(m) ==
    [NoCall EXCEPT !.maxRetries = m,
                   !.phase = IF 0 < m THEN "fetching" ELSE "raised"]
waitTime(attempt) ==
    IF 1000 * (2 ^ attempt) < 3000 THEN 1000 * (2 ^ attempt) ELSE 3000

\* the fetch of the attempt in hand has settled; the loop runs to its next
\* await, its return or its throw
AttemptedUncapped(c, outcome) ==
    LET seen == [c EXCEPT !.outcomes = Append(@, outcome)] IN
    IF outcome = "ok" THEN [seen EXCEPT !.phase = "returned"]
    ELSE IF c.attempt = c.maxRetries - 1
    THEN [seen EXCEPT !.lastError = ErrorOf(outcome), !.phase = "raised"]
    ELSE [seen EXCEPT !.lastError = ErrorOf(outcome), !.phase = "waiting",
                      !.waits = Append(@, 1000 * (2 ^ c.attempt))]
Attempted(c, outcome) ==
    LET seen == [c EXCEPT !.outcomes = Append(@, outcome)] IN
    IF outcome = "ok" THEN [seen EXCEPT !.phase = "returned"]
    ELSE IF c.attempt = c.maxRetries - 1
    THEN [seen EXCEPT !.lastError = ErrorOf(outcome), !.phase = "raised"]
    ELSE [seen EXCEPT !.lastError = ErrorOf(outcome), !.phase = "waiting",
                      !.waits = Append(@, waitTime(c.attempt))]
\* the timer of the wait has fired: attempt++ and the next fetch
Waited(c) == [c EXCEPT !.attempt = @ + 1, !.phase = "fetching"]
\* the time an attempt takes: the timer aborts it after AttemptTimeout
Elapsed(outcome) == IF outcome = "abort" THEN AttemptTimeout ELSE 0

\* Infinity, the quotient by 0
Infinity == 2000000000
\* 100000000 / price.  The prices of OgPrices divide 100000000, so the
\* double quotient is this integer; undefined gives NaN, 0 gives Infinity.
SatsPer(price) ==
    IF price = NaN THEN NaN
    ELSE IF price = 0 THEN Infinity
    ELSE 100000000 \div price
isValidForexData(satsPerUSD, satsPerCNY, satsPerEUR, satsPerJPY) ==
    /\ NaN \notin {satsPerUSD, satsPerCNY, satsPerEUR, satsPerJPY}
    /\ satsPerUSD > 500 /\ satsPerUSD < 5000
    /\ satsPerCNY > 50 /\ satsPerCNY < 1000
    /\ satsPerEUR > 600 /\ satsPerEUR < 6000
    /\ satsPerJPY > 3 /\ satsPerJPY < 50
Rates(r) ==
    [satsPerUSD |-> r.satsPerUSD, satsPerCNY |-> r.satsPerCNY,
     satsPerEUR |-> r.satsPerEUR, satsPerJPY |-> r.satsPerJPY]
ValidRates(r) ==
    isValidForexData(r.satsPerUSD, r.satsPerCNY, r.satsPerEUR, r.satsPerJPY)
Entry(r, timestamp) ==
    [satsPerUSD |-> r.satsPerUSD, satsPerCNY |-> r.satsPerCNY,
     satsPerEUR |-> r.satsPerEUR, satsPerJPY |-> r.satsPerJPY,
     timestamp |-> timestamp]
\* the four fallback constants, as one value
fallbackValues == [fallback |-> TRUE]

\* what response.json() gives: a rejection, a body without bitcoin, or the
\* prices of bitcoin, NaN for a price that is missing
OgPrices ==
    [usd : {NaN, 0, 50000, 100000, 200000}, cny : {NaN, 400000, 100000},
     eur : {40000}, jpy : {10000000, 2000000}]
OgBodies ==
    {[parses |-> FALSE, bitcoin |-> FALSE, usd |-> NaN, cny |-> NaN, eur |-> NaN, jpy |-> NaN],
     [parses |-> TRUE, bitcoin |-> FALSE, usd |-> NaN, cny |-> NaN, eur |-> NaN, jpy |-> NaN]}
    \cup {[parses |-> TRUE, bitcoin |-> TRUE, usd |-> q.usd, cny |-> q.cny,
           eur |-> q.eur, jpy |-> q.jpy] : q \in OgPrices}
\* the time between two requests
OgGaps == {1000, 59000, 60000}

NoRequest ==
    [phase |-> "none", now |-> 0, atStart |-> Null, used |-> "none",
     shown |-> fallbackValues, calc |-> Null, call |-> NoCall]
NoOg == [clock |-> 0, dataCache |-> Null, requests |-> 0, req |-> NoRequest]

\* GET from its entry to the await inside fetchWithRetry, or to the image
\* when the rates in memory are used
GETstart(o) ==
    LET hit == /\ o.dataCache # Null
               /\ o.clock - o.dataCache.timestamp < CACHE_TTL
    IN  [o EXCEPT !.requests = @ + 1,
                  !.req = [phase |-> IF hit THEN "done" ELSE "fetching",
                           now |-> o.clock,
                           atStart |-> o.dataCache,
                           used |-> IF hit THEN "cache" ELSE "none",
                           shown |-> IF hit THEN Rates(o.dataCache) ELSE fallbackValues,
                           calc |-> Null,
                           call |-> IF hit THEN NoCall ELSE StartCall(maxRetries)]]
\* GET goes on with the fallback values
Fallback(o) == [o EXCEPT !.req.phase = "done", !.req.used = "fallback"]
\* an attempt of the call of GET has settled; a throw of fetchWithRetry is
\* caught by GET
GETattempted(o, outcome) ==
    LET c == Attempted(o.req.call, outcome)
        o1 == [o EXCEPT !.req.call = c, !.clock = @ + Elapsed(outcome)]
    IN  IF c.phase = "raised" THEN Fallback(o1) ELSE o1
\* response.json() has settled with body b: GET from there to the image
ParsedUnchecked(o, b) ==
    IF ~b.parses \/ ~(b.bitcoin /\ Truthy(b.usd)) THEN Fallback(o)
    ELSE LET calc == [satsPerUSD |-> SatsPer(b.usd), satsPerCNY |-> SatsPer(b.cny),
                      satsPerEUR |-> SatsPer(b.eur), satsPerJPY |-> SatsPer(b.jpy)]
         IN  [o EXCEPT !.req.calc = calc,
                       !.req.phase = "done",
                       !.req.used = "live",
                       !.req.shown = calc,
                       !.dataCache = Entry(calc, o.req.now)]
Parsed(o, b) ==
    IF ~b.parses \/ ~(b.bitcoin /\ Truthy(b.usd)) THEN Fallback(o)
    ELSE LET calc == [satsPerUSD |-> SatsPer(b.usd), satsPerCNY |-> SatsPer(b.cny),
                      satsPerEUR |-> SatsPer(b.eur), satsPerJPY |-> SatsPer(b.jpy)]
         IN  IF ValidRates(calc)
             THEN [o EXCEPT !.req.calc = calc,
                            !.req.phase = "done",
                            !.req.used = "live",
                            !.req.shown = calc,
                            !.dataCache = Entry(calc, o.req.now)]
             ELSE Fallback([o EXCEPT !.req.calc = calc])

(***************************************************************************)
(* Actions.  Requests are served one after the other.                      *)
(***************************************************************************)
Init ==
    /\ now = 0
    /\ files = [d \in Domains |-> NoFile]
    /\ resp = NoResp
    /\ cycle = NoCycle
    /\ page = NoPage
    /\ conv = NoConv
    /\ race = NoRace
    /\ og = NoOg

Idle == cycle.phase # "fetching"
Awaiting(h) == cycle.handler = h /\ cycle.phase = "fetching"

Result(d, r) ==
    /\ files' = [files EXCEPT ![d] = r.file]
    /\ resp' = r.resp
    /\ cycle' = r.cycle
    /\ UNCHANGED <<now, page, conv, race, og>>

\* the outcomes of the write a step makes (none when it makes no write)
WritesIf(made) == IF made THEN WriteOutcomes ELSE {[kind |-> "ok", keep |-> 0]}
\* the outcomes of the read a step makes of a file
ReadsOf(file) == IF file.exists THEN ReadOutcomes ELSE {"ok"}

\* time passes between two requests
Tick ==
    /\ Idle
    /\ now < MaxTicks * TickMs
    /\ now' = now + TickMs
    /\ UNCHANGED <<files, resp, cycle, page, conv, race, og>>

\* a request to /api/coingecko arrives
PriceRequest ==
    /\ Idle
    /\ Result("price", [file |-> files["price"], resp |-> NoResp,
                        cycle |-> Arrival("coingecko", "price", files["price"], now)])

\* the price source answers
PriceAnswer ==
    /\ Awaiting("coingecko")
    /\ \E up \in PriceAnswers :
       \E w \in WritesIf(FetchPrice(up).ok) :
       \E io \in IF FetchPrice(up).ok THEN {"ok"} ELSE ReadsOf(files["price"]) :
          Result("price", CoinGeckoGET(files["price"], now, up, w, io, cycle))

\* a request to /api/imf arrives at the imf-node variant
ImfNodeRequest ==
    /\ Idle
    /\ Result("gdp", [file |-> files["gdp"], resp |-> NoResp,
                      cycle |-> Arrival("imf-node", "gdp", files["gdp"], now)])

\* a transport answers the imf-node variant
ImfNodeAnswer ==
    /\ Awaiting("imf-node")
    /\ \E a \in ChainAnswers :
          LET c == LoopPass("imf-node", cycle, a)
          IN  IF c.phase = "fetching"
              THEN cycle' = c /\ UNCHANGED <<now, files, resp, page, conv, race, og>>
              ELSE \E w \in WritesIf(c.live) :
                   \E io \in IF c.live THEN {"ok"} ELSE ReadsOf(files["gdp"]) :
                      Result("gdp", ImfNodeGET(files["gdp"], now, c, w, io))

\* a request to /api/imf arrives at the imf-nocache variant
ImfNoCacheRequest ==
    /\ Idle
    /\ Result("gdp", [file |-> files["gdp"], resp |-> NoResp,
                      cycle |-> Arrival("imf-nocache", "gdp", files["gdp"], now)])

\* a transport answers the imf-nocache variant
ImfNoCacheAnswer ==
    /\ Awaiting("imf-nocache")
    /\ \E a \in ChainAnswers :
          LET c == LoopPass("imf-nocache", cycle, a)
          IN  IF c.phase = "fetching"
              THEN cycle' = c /\ UNCHANGED <<now, files, resp, page, conv, race, og>>
              ELSE Result("gdp", ImfNoCacheGET(files["gdp"], now, c))

\* a request to /api/imf arrives at the imf-cache-first variant
ImfCacheFirstRequest ==
    /\ Idle
    /\ \E io \in ReadsOf(files["gdp"]) :
          Result("gdp", ImfCacheFirstArrive(files["gdp"], now, io,
                            Arrival("imf-cache-first", "gdp", files["gdp"], now)))

\* the race between the fetch and the global timeout of the imf-cache-first
\* variant ends
ImfCacheFirstAnswer ==
    /\ Awaiting("imf-cache-first")
    /\ \E a \in DirectAnswers :
       \E w \in WritesIf(a.kind \in {"values", "flat"} /\ a.n >= MIN_COUNTRIES) :
       \E io \in ReadsOf(files["gdp"]) :
          Result("gdp", ImfCacheFirstGET(files["gdp"], now, a, w, io, cycle))

\* the fetch that the imf-cache-first variant gave up waiting for returns
ImfCacheFirstLate ==
    /\ cycle.handler = "imf-cache-first"
    /\ cycle.phase = "done"
    /\ cycle.late.state = "pending"
    /\ \E a \in {d \in DirectAnswers : d.kind # "hang"} :
          Result("gdp", LateResponse(files["gdp"], resp, cycle, a))

\* a request to /api/imf arrives at the imf-expiry variant
ImfExpiryRequest ==
    /\ Idle
    /\ \E url \in UrlLogOutcomes :
       \E io \in IF url = "raises" THEN {"ok"} ELSE ReadsOf(files["gdp"]) :
          Result("gdp", ImfExpiryArrive(files["gdp"], now, url, io,
                            Arrival("imf-expiry", "gdp", files["gdp"], now)))

\* a transport answers the imf-expiry variant
ImfExpiryAnswer ==
    /\ Awaiting("imf-expiry")
    /\ \E a \in ChainAnswers :
          LET c == LoopPass("imf-expiry", cycle, a)
          IN  IF c.phase = "fetching"
              THEN cycle' = c /\ UNCHANGED <<now, files, resp, page, conv, race, og>>
              ELSE \E w \in WritesIf(c.live) :
                      Result("gdp", ImfExpiryGET(files["gdp"], now, c, w))

\* scripts/prime-cache.js runs
PrimeCacheRun ==
    /\ Idle
    /\ \E w \in WriteOutcomes :
          Result("gdp", PrimeCache(files["gdp"], now, w))

Next ==
    \/ Tick
    \/ PriceRequest
    \/ PriceAnswer
    \/ ImfNodeRequest
    \/ ImfNodeAnswer
    \/ ImfNoCacheRequest
    \/ ImfNoCacheAnswer
    \/ ImfCacheFirstRequest
    \/ ImfCacheFirstAnswer
    \/ ImfCacheFirstLate
    \/ ImfExpiryRequest
    \/ ImfExpiryAnswer
    \/ PrimeCacheRun

Spec == Init /\ [][Next]_vars

\* The same steps with the progress the code guarantees.  The fetch of the
\* imf-cache-first variant is aborted by the timer of fetchGdpData
\* (imf/route.ts:90-93) and raced against the global timer of GET
\* (imf/route.ts:185-198), so the race it awaits always ends.  No other
\* handler sets a timer on its fetch (coingecko/route.ts:102-105,
\* convert/[currency]/page.tsx:353-359, 371, 386, imf/route.ts:372-421):
\* the answer it awaits comes when the transport gives one, or never.
LiveSpec == Spec /\ WF_vars(ImfCacheFirstAnswer)

\* the pages alone, the routes at rest
SpecPage == Init /\ [][NextPage]_vars

\* The unit converter alone: a run starts from an amount and a price and
\* calls conversions on the value in hand.
InitConv ==
    /\ now = 0
    /\ files = [d \in Domains |-> NoFile]
    /\ resp = NoResp
    /\ cycle = NoCycle
    /\ page = NoPage
    /\ conv \in {Started(x, price) : x \in Amounts, price \in Prices}
    /\ race = NoRace
    /\ og = NoOg

Converting == conv.values # <<>> /\ Len(conv.calls) < MaxOps
Call(fn, value) ==
    /\ Converting
    /\ conv' = Called(conv, fn, value)
    /\ UNCHANGED <<now, files, resp, cycle, page, race, og>>

SatsToBtc == Call("satsToBtc", satsToBtc(Last(conv.values)))
BtcToSats == Call("btcToSats", btcToSats(Last(conv.values)))
FiatToSats == Call("fiatToSats", fiatToSats(Last(conv.values), conv.price))
SatsToFiat == Call("satsToFiat", satsToFiat(Last(conv.values), conv.price))
FiatToBtc == Call("fiatToBtc", fiatToBtc(Last(conv.values), conv.price))
BtcToFiat == Call("btcToFiat", btcToFiat(Last(conv.values), conv.price))

NextConv ==
    \/ SatsToBtc
    \/ BtcToSats
    \/ FiatToSats
    \/ SatsToFiat
    \/ FiatToBtc
    \/ BtcToFiat

SpecConv == InitConv /\ [][NextConv]_vars

\* Two concurrent requests to /api/coingecko.
RaceArrive ==
    \E k \in RaceCycles :
        /\ race.cyc[k].phase = "none"
        /\ race' = RaceArrival(race, k, now)
        /\ UNCHANGED <<now, files, resp, cycle, page, conv, og>>

RaceAnswer ==
    \E k \in RaceCycles :
        /\ race.cyc[k].phase = "fetching"
        /\ \E up \in PriceAnswers :
           \E w \in WritesIf(FetchPrice(up).ok) :
           \E io \in ReadsOf(race.file) :
              race' = RaceReturn(race, k,
                          CoinGeckoGET(race.file, now, up, w, io, race.cyc[k]))
        /\ UNCHANGED <<now, files, resp, cycle, page, conv, og>>

NextRace ==
    \/ RaceArrive
    \/ RaceAnswer

SpecRace == Init /\ [][NextRace]_vars

\* fetchWithRetry alone, called with maxRetries from 1 to MaxRetries.
InitRetry ==
    /\ now = 0
    /\ files = [d \in Domains |-> NoFile]
    /\ resp = NoResp
    /\ cycle = NoCycle
    /\ page = NoPage
    /\ conv = NoConv
    /\ race = NoRace
    /\ og \in {[NoOg EXCEPT !.req.call = StartCall(m)] : m \in 1..MaxRetries}

RetryAttempt ==
    /\ og.req.phase = "none"
    /\ og.req.call.phase = "fetching"
    /\ \E outcome \in AttemptOutcomes :
           og' = [og EXCEPT !.req.call = Attempted(@, outcome),
                            !.clock = @ + Elapsed(outcome)]
    /\ UNCHANGED <<now, files, resp, cycle, page, conv, race>>

RetryWait ==
    /\ og.req.phase = "none"
    /\ og.req.call.phase = "waiting"
    /\ og' = [og EXCEPT !.req.call = Waited(@),
                        !.clock = @ + Last(og.req.call.waits)]
    /\ UNCHANGED <<now, files, resp, cycle, page, conv, race>>

NextRetry ==
    \/ RetryAttempt
    \/ RetryWait

SpecRetry == InitRetry /\ [][NextRetry]_vars

\* The requests for the image, one after the other.
OgArrive ==
    /\ og.req.phase \in {"none", "idle", "done"}
    /\ og.requests < MaxRequests
    /\ og' = GETstart(og)
    /\ UNCHANGED <<now, files, resp, cycle, page, conv, race>>

OgAttempt ==
    /\ og.req.phase = "fetching"
    /\ og.req.call.phase = "fetching"
    /\ \E outcome \in AttemptOutcomes : og' = GETattempted(og, outcome)
    /\ UNCHANGED <<now, files, resp, cycle, page, conv, race>>

OgWait ==
    /\ og.req.phase = "fetching"
    /\ og.req.call.phase = "waiting"
    /\ og' = [og EXCEPT !.req.call = Waited(@),
                        !.clock = @ + Last(og.req.call.waits)]
    /\ UNCHANGED <<now, files, resp, cycle, page, conv, race>>

OgParse ==
    /\ og.req.phase = "fetching"
    /\ og.req.call.phase = "returned"
    /\ \E b \in OgBodies : og' = Parsed(og, b)
    /\ UNCHANGED <<now, files, resp, cycle, page, conv, race>>

OgIdle ==
    /\ og.req.phase = "done"
    /\ og.requests < MaxRequests
    /\ \E gap \in OgGaps :
           og' = [og EXCEPT !.clock = @ + gap, !.req.phase = "idle"]
    /\ UNCHANGED <<now, files, resp, cycle, page, conv, race>>

NextOg ==
    \/ OgArrive
    \/ OgAttempt
    \/ OgWait
    \/ OgParse
    \/ OgIdle

SpecOg == Init /\ [][NextOg]_vars

(***************************************************************************)
(* Vocabulary of the claims.                                               *)
(***************************************************************************)
\* the order of the strategies: direct call, AllOrigins relay, corsproxy relay
StrategyOrder == <<"direct", "allorigins", "corsproxy">>

\* the handlers whose fetch is the strategy chain
ChainHandlers == {"imf-node", "imf-nocache", "imf-expiry"}
\* the handlers that keep a snapshot
StoreHandlers == {"coingecko", "imf-node", "imf-cache-first", "imf-expiry"}

\* a file that holds a whole snapshot, and the record it holds
Parseable(file) == file.exists /\ JSONparse(file.text).ok
Snapshot(file) == JSONparse(file.text).value

\* the payload and the capture time of a record or of a response body
Payload(r) == Pick(r, {"data", "timestamp"})

\* a request has been answered
Finished == cycle.phase = "done" /\ cycle.handler # "prime-cache"
\* the cycle contacted the live source
Contacted == cycle.attempts # <<>>
\* the cycle contacted the live source and every strategy failed
AllStrategiesFailed == Finished /\ Contacted /\ ~cycle.live
\* when the cycle arrived the snapshot file held a whole record, and the
\* file read of the cycle, if there was one, did not fail
SnapshotReadable == Parseable(cycle.before) /\ cycle.io # "eio"
\* the response is not an error and carries the payload and the capture time
\* of the snapshot the cycle found
ServesSnapshot ==
    /\ resp.status = 200
    /\ "data" \in DOMAIN resp.body
    /\ Payload(resp.body) = Payload(Snapshot(cycle.before))
\* the response is an error without a payload
ErrorOnly ==
    /\ resp.status = 500
    /\ "error" \in DOMAIN resp.body
    /\ "data" \notin DOMAIN resp.body
\* the response is a success carrying the payload fetched in the cycle
ServesLive ==
    /\ resp.status = 200
    /\ "data" \in DOMAIN resp.body
    /\ resp.body.data = cycle.liveData
    /\ resp.body.source \in {"api", "imf", "IMF API"}

(***************************************************************************)
(* C1.  A cycle in which every live strategy fails ends FAILED (an error   *)
(* response without payload) if and only if no readable snapshot exists,   *)
(* and DEGRADED (a non-error response carrying the payload of the          *)
(* snapshot) whenever a snapshot exists, in every route handler.           *)
(***************************************************************************)
C1_AllFailEndsBySnapshot ==
    AllStrategiesFailed =>
        IF SnapshotReadable THEN ServesSnapshot ELSE ErrorOnly

\* the imf-nocache handler has answered with an error although the snapshot
\* file held a whole record
C1_Witness ==
    /\ AllStrategiesFailed
    /\ cycle.handler = "imf-nocache"
    /\ SnapshotReadable
    /\ resp.status = 500

(***************************************************************************)
(* C2.  As claimed: in every step that changes the snapshot file of a      *)
(* domain, the step ends a cycle of that domain whose live fetch returned  *)
(* a payload that passed the validation of its handler; nothing else       *)
(* changes the file.                                                       *)
(***************************************************************************)
C2_OnlyFetchWrites ==
    [][\A d \in Domains :
          files'[d] # files[d] =>
              /\ cycle.phase = "fetching"
              /\ cycle'.domain = d
              /\ cycle'.live]_vars

(***************************************************************************)
(* C2, amended.  The snapshot file of a domain changes only in a step that *)
(* ends a cycle of that domain whose live fetch returned a payload that    *)
(* passed the validation of its handler, or in a run of the prime-cache    *)
(* script, which writes its hard-coded table over the GDP snapshot; a      *)
(* cycle whose fetch failed leaves the file as it was.                     *)
(***************************************************************************)
C2_FetchOrPrimeWrites ==
    [][\A d \in Domains :
          files'[d] # files[d] =>
              \/ /\ cycle.phase = "fetching"
                 /\ cycle'.domain = d
                 /\ cycle'.live
              \/ /\ cycle'.handler = "prime-cache"
                 /\ d = "gdp"]_vars

\* a cycle with a validated live payload has replaced an earlier snapshot
C2_Witness ==
    /\ Finished
    /\ cycle.live
    /\ Parseable(cycle.before)
    /\ Parseable(files[cycle.domain])
    /\ files[cycle.domain] # cycle.before

(***************************************************************************)
(* C3.  The strategy chain raises only when every strategy of its list has *)
(* failed, and the error it raises is the error of the last strategy       *)
(* attempted.                                                              *)
(***************************************************************************)
C3_ChainRaisesLastError ==
    (cycle.handler \in ChainHandlers /\ cycle.chainError # NoError) =>
        /\ cycle.attempts = StrategyOrder
        /\ cycle.failures = Len(StrategyOrder)
        /\ cycle.chainError = cycle.lastFailure
        /\ cycle.chainError.by = StrategyOrder[Len(StrategyOrder)]

\* a chain has raised after its three strategies failed
C3_Witness ==
    /\ Finished
    /\ cycle.handler \in ChainHandlers
    /\ cycle.chainError # NoError
    /\ cycle.failures = Len(StrategyOrder)

(***************************************************************************)
(* C4.  The strategies are attempted in list order (direct, AllOrigins,    *)
(* corsproxy), each at most once; the chain returns the payload of the     *)
(* first strategy that did not fail, every strategy before it was          *)
(* attempted and failed, and none after it is attempted in the cycle.      *)
(***************************************************************************)
C4_ListOrderFirstValid ==
    cycle.handler \in ChainHandlers =>
        /\ Len(cycle.attempts) <= Len(StrategyOrder)
        /\ cycle.attempts = SubSeq(StrategyOrder, 1, Len(cycle.attempts))
        /\ cycle.live =>
              /\ cycle.phase # "fetching"
              /\ cycle.failures = Len(cycle.attempts) - 1
              /\ cycle.liveData.via = cycle.attempts[Len(cycle.attempts)]
        /\ ~cycle.live => cycle.failures = Len(cycle.attempts)

\* a chain has returned the payload of its third strategy
C4_Witness ==
    /\ cycle.handler \in ChainHandlers
    /\ cycle.live
    /\ Len(cycle.attempts) = Len(StrategyOrder)

(***************************************************************************)
(* C5.  In every GDP handler a response from which fewer than 20 country   *)
(* values are extracted is never returned as a live success and never      *)
(* written to the snapshot.                                                *)
(***************************************************************************)
C5_ShortTableIsFailure ==
    (cycle.domain = "gdp" /\ cycle.handler # "prime-cache") =>
        /\ cycle.live => cycle.liveData.n >= MIN_COUNTRIES
        /\ Parseable(files["gdp"]) =>
              Snapshot(files["gdp"]).data.n >= MIN_COUNTRIES

(***************************************************************************)
(* C6.  After a crash during the snapshot write of a handler that follows   *)
(* an earlier completed write, a read returns the earlier snapshot in      *)
(* full.                                                                   *)
(***************************************************************************)
C6_CrashKeepsEarlierSnapshot ==
    (cycle.handler \in StoreHandlers /\ cycle.phase = "crashed"
        /\ cycle.write = "crash" /\ Parseable(cycle.before)) =>
        readFromCache(files[cycle.domain], "ok") = Snapshot(cycle.before)

(***************************************************************************)
(* C7.  In the handlers that keep a snapshot, when the live fetch of a     *)
(* cycle fails and a readable snapshot exists the snapshot is served,      *)
(* whatever its age; and the expiry handler serves every snapshot it can   *)
(* read, whatever its age.                                                 *)
(***************************************************************************)
C7_SnapshotServedAtAnyAge ==
    /\ (AllStrategiesFailed /\ cycle.handler \in StoreHandlers /\ SnapshotReadable)
          => ServesSnapshot
    /\ (cycle.handler = "imf-expiry" /\ cycle.read # "none" /\ SnapshotReadable)
          => (Finished /\ ServesSnapshot)

\* the cache-first handler has served, after a failed fetch, a snapshot at
\* least seven days old
C7_Witness ==
    /\ AllStrategiesFailed
    /\ cycle.handler = "imf-cache-first"
    /\ SnapshotReadable
    /\ cycle.at - Snapshot(cycle.before).timestamp >= sevenDaysInMs
    /\ resp.status = 200

(***************************************************************************)
(* C8.  The snapshot read never raises: it gives null exactly when the     *)
(* file is missing, cannot be read or does not parse, and a cycle whose    *)
(* live fetch also failed then ends with an error response.                *)
(***************************************************************************)
C8_ReadNeverRaises ==
    /\ cycle.read # "raised"
    /\ cycle.read \in {"null", "record"} =>
          (cycle.read = "null" <=> ~SnapshotReadable)
    /\ (AllStrategiesFailed /\ cycle.read = "null") =>
          (resp.status = 500 /\ "error" \in DOMAIN resp.body)

\* a cycle whose fetch failed found a snapshot file it could not read
C8_Witness ==
    /\ AllStrategiesFailed
    /\ cycle.before.exists
    /\ cycle.read = "null"
    /\ resp.status = 500

(***************************************************************************)
(* C9.  When the snapshot write fails after a validated live fetch, the    *)
(* cycle still answers with the live payload as a success.                 *)
(***************************************************************************)
C9_WriteFailureNotPropagated ==
    (cycle.handler \in StoreHandlers /\ cycle.live
        /\ cycle.write \in {"denied", "raises"}) =>
        (Finished /\ ServesLive)

\* a cycle has answered with its live payload although its write failed
C9_Witness ==
    /\ Finished
    /\ cycle.live
    /\ cycle.write \in {"denied", "raises"}
    /\ resp.status = 200

C11_EveryCycleEnds ==
    (cycle.phase = "fetching") ~> (cycle.phase # "fetching")

\* the case: a chain handler awaits the answer of an approach it set no timer on
C11_Witness ==
    /\ cycle.phase = "fetching"
    /\ cycle.handler \in ChainHandlers
    /\ cycle.pos > 1

(***************************************************************************)
(* C14.  A response whose payload comes from the snapshot is tagged with   *)
(* source exactly "cache" and carries the capture timestamp of the         *)
(* snapshot; a response whose payload comes from a live fetch carries a    *)
(* source other than "cache".                                              *)
(***************************************************************************)
C14_SourceTellsOrigin ==
    Finished =>
        /\ cycle.served = "snapshot" =>
               /\ resp.body.source = "cache"
               /\ resp.body.timestamp = Snapshot(cycle.before).timestamp
        /\ cycle.served = "live" => resp.body.source # "cache"

\* the case: a snapshot served after a failed fetch
C14_Witness ==
    /\ Finished
    /\ Contacted
    /\ cycle.served = "snapshot"
    /\ resp.body.timestamp < cycle.at

(***************************************************************************)
(* C15.  A cycle that ends FAILED returns only an error: a response that   *)
(* is neither a live success nor a served snapshot carries no data         *)
(* payload.                                                                *)
(***************************************************************************)
C15_FailedCarriesNoData ==
    (Finished /\ cycle.served = "none") => ErrorOnly

\* the case: every strategy failed and no snapshot could be served
C15_Witness ==
    /\ AllStrategiesFailed
    /\ cycle.served = "none"
    /\ ErrorOnly

(***************************************************************************)
(* C16.  After a cycle ends SUCCEEDED the snapshot of its domain holds     *)
(* exactly the payload the cycle returned, stamped with the time of the    *)
(* write; hence a following cycle whose fetch fails serves the most        *)
(* recently fetched payload.                                               *)
(***************************************************************************)
\* the snapshot file of the domain holds the payload of the response
SnapshotIsResponse ==
    /\ Parseable(files[cycle.domain])
    /\ Payload(Snapshot(files[cycle.domain])) = Payload(resp.body)

PageDone == page.phase = "done"
\* the fetch of a domain gave no payload: it raised, it answered a status
\* that is not a success, or its body had no bitcoin member (price) or no
\* data member (GDP)
NoPayload(d) == page.got[d] \in {"throws", "status", "nobitcoin", "nodata"}
\* the domain the error shown to the user names
DomainNamed(error) ==
    CASE error \in {"Failed to load data: Failed to fetch Bitcoin data",
                    "Failed to load Bitcoin price data: Failed to fetch CoinGecko data",
                    "Failed to load Bitcoin price data: Invalid Bitcoin data format from CoinGecko API",
                    "Failed to load Bitcoin price data: Bitcoin price in USD not found in CoinGecko data"}
           -> "price"
      [] error \in {"Failed to load data: Failed to fetch GDP data",
                    "Failed to load GDP data"}
           -> "gdp"
      [] OTHER -> "none"

(***************************************************************************)
(* C12.  A ranked list is published only when both the price payload and   *)
(* the GDP payload were obtained; when either domain ends with no payload   *)
(* no list is published and the error shown names that domain.             *)
(***************************************************************************)
C12_ListNeedsBothPayloads ==
    PageDone =>
        /\ page.published =>
               /\ page.got = [price |-> "ok", gdp |-> "ok"]
               /\ page.error = "none"
        /\ (\E d \in Domains : NoPayload(d)) =>
               /\ ~page.published
               /\ page.currencies = <<>>
               /\ \E d \in Domains : NoPayload(d) /\ DomainNamed(page.error) = d

\* the case: the price was obtained and the GDP fetch failed
C12_Witness ==
    /\ PageDone
    /\ page.got.price = "ok"
    /\ NoPayload("gdp")
    /\ ~page.published
    /\ DomainNamed(page.error) = "gdp"

(***************************************************************************)
(* C13.  If the price payload has no quote for usd the whole cycle is a    *)
(* failure: no ranked list is published, in particular no bitcoin row      *)
(* whose economic size is undefined or NaN, and an error is shown.         *)
(***************************************************************************)
\* the price payload was obtained and it has no usd quote
NoUsdQuote == page.got.price = "ok" /\ ~Quoted(page.bitcoin, "usd")

C13_NoUsdQuoteIsFailure ==
    (PageDone /\ NoUsdQuote) =>
        /\ ~page.published
        /\ \A i \in DOMAIN page.currencies :
               page.currencies[i].economicSize # NaN
        /\ page.error # "none"

\* the case: the page of part_002 stops at a payload without a usd quote
C13_Witness ==
    /\ PageDone
    /\ NoUsdQuote
    /\ page.bitcoin.quotes # {}
    /\ ~page.published
    /\ DomainNamed(page.error) = "price"

(***************************************************************************)
(* C17.  The list has at most one entity per currency code, and the size   *)
(* of a fiat entity is 1e9 times the sum of the GDP of all the country     *)
(* records mapped to its currency; the records of the Eurozone members     *)
(* give one EUR entity.                                                    *)
(***************************************************************************)
\* a list was published from a table whose records the page reads as numbers
PublishedFromNumbers ==
    /\ PageDone
    /\ page.published
    /\ ReadsNumber(page.client, page.gdp.shape)
\* the entities of the list, and the fiat ones
Listed == {page.currencies[i] : i \in DOMAIN page.currencies}
ListedFiat == {e \in Listed : e.type = "fiat"}
\* the countries with a record in the table that the table of the page maps
\* to the currency
RecordsMappedTo(currencyCode) ==
    {c \in Countries :
        /\ page.gdp.data[c] # 0
        /\ mapCountryCodeToCurrency(c) = currencyCode}
\* the sum of the GDP (in billions) of the records of a set of countries
RECURSIVE GdpSum(_)
GdpSum(S) ==
    IF S = {} THEN 0
    ELSE LET c == CHOOSE x \in S : TRUE
         IN  page.gdp.data[c] + GdpSum(S \ {c})
\* the place of a country in the payload
PlaceOf(c) == CHOOSE i \in DOMAIN CountryOrder : CountryOrder[i] = c
\* the GDP (in billions) of the last record of the payload mapped to the
\* currency
LastRecordGdp(currencyCode) ==
    LET last == CHOOSE c \in RecordsMappedTo(currencyCode) :
                    \A x \in RecordsMappedTo(currencyCode) : PlaceOf(x) <= PlaceOf(c)
    IN  page.gdp.data[last]
\* the size is 1e9 times the number of billions
IsBillions(economicSize, billions) ==
    /\ economicSize % Billion = 0
    /\ economicSize \div Billion = billions
\* no two entities of the list have the same code
OnePerCode ==
    \A i, j \in DOMAIN page.currencies :
        page.currencies[i].code = page.currencies[j].code => i = j

\* as claimed: the sum of all the records mapped to the currency
C17_SizeIsSumOfMappedRecords ==
    PublishedFromNumbers =>
        /\ OnePerCode
        /\ \A e \in ListedFiat :
               IsBillions(e.economicSize, GdpSum(RecordsMappedTo(e.code)))

\* amended: the sum of the records of the Eurozone members for EUR, the last
\* record mapped to the currency for any other
C17_SizeIsEurozoneSumOrLastRecord ==
    PublishedFromNumbers =>
        /\ OnePerCode
        /\ \A e \in ListedFiat :
               IF e.code = "EUR"
               THEN IsBillions(e.economicSize,
                               GdpSum({c \in RecordsMappedTo("EUR") :
                                          isEurozoneCountry(c)}))
               ELSE /\ RecordsMappedTo(e.code) # {}
                    /\ IsBillions(e.economicSize, LastRecordGdp(e.code))

\* the case: two Eurozone members and a record under an aggregate code give
\* one EUR entity, and a country has records under two codes
C17_Witness ==
    /\ PublishedFromNumbers
    /\ {"DEU", "FRA", "EMU"} \subseteq RecordsMappedTo("EUR")
    /\ page.gdp.data["USA"] = 2 /\ page.gdp.data["US"] = 1
    /\ \E e \in ListedFiat : e.code = "EUR" /\ e.economicSize = 2 * Billion
    /\ \E e \in ListedFiat : e.code = "USD" /\ e.economicSize = Billion

(***************************************************************************)
(* C18.  The fiat entities of the list are exactly the min(limit, k)       *)
(* greatest of the k candidate currencies that have a price: the limit     *)
(* applies to the fiat currencies alone, before bitcoin and the metals     *)
(* are merged in.                                                          *)
(***************************************************************************)
\* the candidates: the currencies of the table for which the payload has a
\* price, as code and size
Candidates ==
    LET fiatCurrencies ==
            fiatLoop(page.client, processGdp(page.client, page.gdp),
                     page.bitcoin).fiatCurrencies
    IN  {[code |-> fiatCurrencies[i].code,
          economicSize |-> fiatCurrencies[i].economicSize] :
            i \in DOMAIN fiatCurrencies}
\* the fiat entities of the list, as code and size
ListedFiatSizes ==
    {[code |-> e.code, economicSize |-> e.economicSize] : e \in ListedFiat}
Min(a, b) == IF a < b THEN a ELSE b

C18_TopFiatBeforeMerge ==
    (PageDone /\ page.published) =>
        /\ ListedFiatSizes \subseteq Candidates
        /\ Cardinality(ListedFiatSizes)
               = Min(TOP_CURRENCIES_LIMIT, Cardinality(Candidates))
        /\ \A e \in ListedFiatSizes :
           \A c \in Candidates \ ListedFiatSizes :
               e.economicSize >= c.economicSize

\* the case: more candidates than the limit, the smallest is left out, and
\* bitcoin and a metal are listed beside the fiat currencies
C18_Witness ==
    /\ PageDone
    /\ page.published
    /\ Cardinality(Candidates) > TOP_CURRENCIES_LIMIT
    /\ Cardinality(ListedFiat) = TOP_CURRENCIES_LIMIT
    /\ Cardinality(Listed) > TOP_CURRENCIES_LIMIT + 1
    /\ \E e \in ListedFiatSizes :
       \E c \in Candidates \ ListedFiatSizes :
           e.economicSize > c.economicSize

(***************************************************************************)
(* C19.  In the published list the entity at position i (from 0) has rank  *)
(* i + 1, and the economic sizes are non-increasing down the list.         *)
(***************************************************************************)
\* a >= b on numbers: no comparison with NaN is true
Geq(a, b) == a # NaN /\ b # NaN /\ a >= b

C19_RankedBySize ==
    (PageDone /\ page.published) =>
        /\ \A i \in DOMAIN page.currencies : page.currencies[i].rank = i
        /\ \A i, j \in DOMAIN page.currencies :
               i < j => Geq(page.currencies[i].economicSize,
                            page.currencies[j].economicSize)

\* the case: a list of bitcoin, a metal and fiat currencies of different
\* sizes, ranked
C19_Witness ==
    /\ PageDone
    /\ page.published
    /\ Len(page.currencies) >= 4
    /\ page.currencies[1].type = "fiat"
    /\ page.currencies[2].type = "metal"
    /\ page.currencies[3].code = "BTC"
    /\ \A i \in DOMAIN page.currencies : page.currencies[i].rank = i
    /\ \A i, j \in DOMAIN page.currencies :
           i < j => page.currencies[i].economicSize
                        > page.currencies[j].economicSize

(***************************************************************************)
(* C20.  A currency that has a GDP record and no price in the price        *)
(* payload is absent from the list, a diagnostic keyed by its code is      *)
(* recorded, and the aggregation goes on for the other currencies.         *)
(***************************************************************************)
\* the currencies of the table, and those the price payload does not quote
TableCurrencies ==
    LET processed == processGdp(page.client, page.gdp)
    IN  {processed[i].key : i \in DOMAIN processed}
Unpriced == {k \in TableCurrencies : ~HasPrice(page.client, page.bitcoin, k)}

C20_UnpricedCurrencySkipped ==
    (PageDone /\ page.got = [price |-> "ok", gdp |-> "ok"]) =>
        /\ page.published
        /\ page.error = "none"
        /\ \A e \in Listed : e.code \notin Unpriced
        /\ page.apiErrors \cap TableCurrencies = Unpriced
        /\ Cardinality(ListedFiat)
               = Min(TOP_CURRENCIES_LIMIT, Cardinality(TableCurrencies \ Unpriced))

\* the case: the yen has a record and no price, the dollar and the euro are
\* listed
C20_Witness ==
    /\ PageDone
    /\ page.published
    /\ page.gdp.data["JPN"] = 2
    /\ Unpriced = {"JPY"}
    /\ "JPY" \in page.apiErrors
    /\ {e.code : e \in ListedFiat} = {"USD", "EUR"}

(***************************************************************************)
(* C21.  A metal (XAU, XAG) is in the published list if and only if the    *)
(* price payload has a quote for its code, a quote being a price above     *)
(* zero; the row of a listed metal has numbers for its economic size and   *)
(* its sats per unit, and a metal without a quote has no row at all.       *)
(***************************************************************************)
\* the price payload has a quote for the code: a price above zero
HasQuote(code) == Quote(page.bitcoin, code) # NaN /\ Quote(page.bitcoin, code) > 0
\* the rows of the list with the code
RowsOf(code) == {e \in Listed : e.code = code}

C21_MetalListedIffQuoted ==
    (PageDone /\ page.published) =>
        \A m \in {"XAU", "XAG"} :
            /\ RowsOf(m) # {} <=> HasQuote(toLowerCase(m))
            /\ \A e \in RowsOf(m) :
                   e.type = "metal" /\ e.economicSize # NaN /\ e.economicSize > 0

\* the case: gold is quoted and listed, silver is not quoted and has no row
C21_Witness ==
    /\ PageDone
    /\ page.published
    /\ HasQuote("usd") /\ HasQuote("xau")
    /\ ~Quoted(page.bitcoin, "xag")
    /\ \E e \in RowsOf("XAU") : e.economicSize = page.bitcoin.gold
    /\ RowsOf("XAG") = {}

(***************************************************************************)
(* C24.  No entity of a published list was built from a price that is not  *)
(* above zero: the sats per unit of every entity is 100000000 over a       *)
(* positive price, so it is neither infinite, nor negative, nor NaN.       *)
(***************************************************************************)
C24_NoEntityFromNonPositivePrice ==
    (PageDone /\ page.published) =>
        \A e \in Listed :
            /\ e.satsPerUnit.den # NaN
            /\ e.satsPerUnit.den > 0

\* the case: the yen has a record and a quote of zero, and the page leaves
\* it out as it does a currency without a price
C24_Witness ==
    /\ PageDone
    /\ page.published
    /\ page.client = "page"
    /\ page.gdp.data["JPN"] # 0
    /\ Quote(page.bitcoin, "jpy") = 0
    /\ RowsOf("JPY") = {}
    /\ "JPY" \in page.apiErrors
    /\ RowsOf("USD") # {}

(***************************************************************************)
(* C30.  A fiat entity is in the published list only if the GDP input has  *)
(* at least one record that maps to its currency; when the input has no    *)
(* record of a Eurozone member, the list has no EUR entity.                *)
(***************************************************************************)
C30_FiatNeedsARecord ==
    (PageDone /\ page.published) =>
        \A e \in ListedFiat : RecordsMappedTo(e.code) # {}

\* the case: the yen is quoted and has no record, other currencies have
\* records, and the list has them and not the yen
C30_Witness ==
    /\ PageDone
    /\ page.published
    /\ HasQuote("jpy") /\ HasQuote("usd")
    /\ RecordsMappedTo("JPY") = {}
    /\ RecordsMappedTo("USD") # {}
    /\ RowsOf("JPY") = {}
    /\ RowsOf("USD") # {}

(***************************************************************************)
(* C22.  Each conversion that takes a price (fiatToSats, satsToFiat,       *)
(* fiatToBtc, btcToFiat) returns exactly 0, and raises nothing, whenever   *)
(* the price is zero or negative, for every amount.                        *)
(***************************************************************************)
PricedConversions == {"fiatToSats", "satsToFiat", "fiatToBtc", "btcToFiat"}

C22_NonPositivePriceGivesZero ==
    \A i \in DOMAIN conv.calls :
        (conv.calls[i] \in PricedConversions /\ LeqZero(conv.price)) =>
            conv.values[i + 1] = Zero

\* the case: an amount that is not 0 and a negative price, and fiatToSats
\* and fiatToBtc return 0
C22_Witness ==
    /\ conv.calls = <<"fiatToSats", "fiatToBtc">>
    /\ conv.price = FromInt(0 - 1)
    /\ conv.values = <<FromInt(MaxAmount), Zero, Zero>>

(***************************************************************************)
(* C23.  satsToBtc(btcToSats(p)) = p for every positive p, and for every   *)
(* positive price and every positive amount a,                             *)
(* satsToFiat(fiatToSats(a, price), price) = a.                            *)
(***************************************************************************)
Positive(x) == ~LeqZero(x)
\* the places of a run where a conversion and then its inverse are called
\* on a positive value, with a positive price where one is taken
RoundTrips ==
    {i \in 1..(Len(conv.calls) - 1) :
        /\ Positive(conv.values[i])
        /\ \/ conv.calls[i] = "btcToSats" /\ conv.calls[i + 1] = "satsToBtc"
           \/ /\ conv.calls[i] = "fiatToSats" /\ conv.calls[i + 1] = "satsToFiat"
              /\ Positive(conv.price)}
\* the relative error allowed to a round trip is 2^(-ToleranceBits): each
\* of its at most four roundings adds at most 2^(-53)
ToleranceBits == 50

\* as claimed: the round trip gives back the value itself
C23_RoundTripIsIdentity ==
    \A i \in RoundTrips : conv.values[i + 2] = conv.values[i]

\* amended: the round trip gives back the value within a relative error of
\* 2^(-50)
C23_RoundTripWithinTolerance ==
    \A i \in RoundTrips :
        Within(conv.values[i + 2], conv.values[i], ToleranceBits)

\* the case: 5 at the price 3 comes back as another double, within the
\* tolerance of 5
C23_Witness ==
    /\ conv.calls = <<"fiatToSats", "satsToFiat">>
    /\ conv.values[1] = FromInt(5)
    /\ conv.price = FromInt(3)
    /\ conv.values[3] # conv.values[1]
    /\ Within(conv.values[3], conv.values[1], ToleranceBits)

(***************************************************************************)
(* C26.  In the GDP handler with the expiry of 24 hours (CACHE_EXPIRY_MS), *)
(* a snapshot older than 24 hours is not served directly: a fresh fetch is *)
(* attempted first and the expired snapshot is returned only if that fetch *)
(* fails; a snapshot at most 24 hours old is served without fetching.      *)
(***************************************************************************)
\* the cycle of the handler with the expiry has answered, and getCachedData
\* had read a record
ExpiryCycleWithRecord ==
    /\ Finished
    /\ cycle.handler = "imf-expiry"
    /\ cycle.read = "record"
    /\ "timestamp" \in DOMAIN Snapshot(cycle.before)
\* the age of that record when the request arrived
SnapshotAge == cycle.at - Snapshot(cycle.before).timestamp

C26_ExpiredSnapshotFetchesFirst ==
    ExpiryCycleWithRecord =>
        IF SnapshotAge > CACHE_EXPIRY_MS
        THEN /\ Contacted
             /\ cycle.served = "snapshot" => ~cycle.live
        ELSE /\ ~Contacted
             /\ ServesSnapshot

\* the case: a snapshot written in the same instant is served without a
\* fetch
C26_Witness ==
    /\ ExpiryCycleWithRecord
    /\ SnapshotAge <= CACHE_EXPIRY_MS
    /\ ~Contacted
    /\ ServesSnapshot
    /\ resp.body.source = "cache"

(***************************************************************************)
(* C29.  In the cache-first GDP handler, once the global timeout has fired *)
(* for a cycle, the cycle answers from the snapshot if one exists and with *)
(* an error otherwise, and a live response that arrives afterwards neither *)
(* changes that answer nor writes the snapshot.                            *)
(***************************************************************************)
\* the global timeout fired for the cycle, which has answered
TimedOut ==
    /\ cycle.handler = "imf-cache-first"
    /\ cycle.phase = "done"
    /\ cycle.late.state # "none"

C29_LateResponseIsDropped ==
    TimedOut =>
        /\ IF SnapshotReadable THEN ServesSnapshot ELSE ErrorOnly
        /\ ~cycle.live
        /\ cycle.write = "none"
        /\ files[cycle.domain] = cycle.before

\* the case: the timeout fired, the snapshot of a week ago was served, and
\* the fetch then returned a whole table
C29_Witness ==
    /\ TimedOut
    /\ cycle.late.state = "settled"
    /\ cycle.late.data # Null
    /\ cycle.late.data.n >= MIN_COUNTRIES
    /\ SnapshotReadable
    /\ ServesSnapshot
    /\ resp.body.source = "cache (error)"
    /\ files[cycle.domain] = cycle.before

(***************************************************************************)
(* C25.  When two refresh cycles of one domain run concurrently their      *)
(* snapshot writes do not interleave: after both have finished the         *)
(* snapshot equals in full the record written by exactly one of them, and  *)
(* a read made by either cycle returns either absence or one complete      *)
(* record.                                                                 *)
(***************************************************************************)
\* both cycles have answered
RaceFinished == \A k \in RaceCycles : race.cyc[k].phase = "done"
\* the cycles whose write opened the snapshot file
Writers == {k \in RaceCycles : race.cyc[k].write \in {"ok", "raises"}}
\* the text cycle k gave to writeFileSync
WrittenBy(k) ==
    JSONstringify([timestamp |-> race.cyc[k].at, data |-> race.cyc[k].liveData],
                  <<"timestamp", "data">>)
\* the two cycles were in flight together: neither found the write of the
\* other when it arrived
Overlapped == \A k \in RaceCycles : ~race.cyc[k].before.exists

C25_WritesDoNotInterleave ==
    /\ (RaceFinished /\ Writers # {}) =>
           /\ race.file.exists
           /\ \E k \in Writers : race.file.text = WrittenBy(k)
    /\ \A k \in RaceCycles :
           /\ race.cyc[k].read # "raised"
           /\ (race.cyc[k].phase = "done" /\ race.cyc[k].served = "snapshot") =>
                  \E j \in Writers :
                      Payload(race.resp[k].body) =
                          [timestamp |-> race.cyc[j].at,
                           data |-> race.cyc[j].liveData]

\* the case: both cycles fetch while no snapshot exists, both write, and the
\* file is the whole record of one of them and not that of the other
C25_Witness ==
    /\ RaceFinished
    /\ Overlapped
    /\ \A k \in RaceCycles : race.cyc[k].write = "ok"
    /\ race.file.text = WrittenBy("A")
    /\ race.file.text # WrittenBy("B")

(***************************************************************************)
(* C27.  fetchWithRetry makes at most maxRetries attempts; it returns the  *)
(* first response with a success status and makes no further attempt; when *)
(* every attempt fails it raises the error of the last attempt, having     *)
(* waited min(1000 * 2^k, 3000) ms after the k-th failed attempt (k from   *)
(* 0) and not at all after the last one.                                   *)
(***************************************************************************)
\* the time the waits of a call took together
SumWaits(waits) ==
    LET sum[i \in 0..Len(waits)] == IF i = 0 THEN 0 ELSE sum[i - 1] + waits[i]
    IN  sum[Len(waits)]

C27_RetryAttemptsAndWaits ==
    LET c == og.req.call
        n == Len(c.outcomes)
    IN  /\ n <= c.maxRetries
        /\ \A i \in 1..(n - 1) : c.outcomes[i] # "ok"
        /\ c.phase = "returned" <=> (n > 0 /\ c.outcomes[n] = "ok")
        /\ \A k \in 0..(Len(c.waits) - 1) :
               c.waits[k + 1] = Min(1000 * (2 ^ k), 3000)
        /\ c.phase \in {"fetching", "returned", "raised"} => Len(c.waits) = c.attempt
        /\ c.phase = "waiting" => Len(c.waits) = n
        /\ c.phase # "waiting" => og.clock >= SumWaits(c.waits)
        /\ c.phase = "raised" =>
               /\ n = c.maxRetries
               /\ \A i \in 1..n : c.outcomes[i] # "ok"
               /\ c.lastError = ErrorOf(c.outcomes[n])
               /\ Len(c.waits) = n - 1

\* the case: four attempts fail, and the third wait is the capped one
C27_Witness ==
    /\ og.req.call.phase = "raised"
    /\ Len(og.req.call.outcomes) = 4
    /\ og.req.call.waits = <<1000, 2000, 3000>>

(***************************************************************************)
(* C28.  The rates the image route keeps in memory are only ever values    *)
(* that were fetched live and passed isValidForexData; the entry is used   *)
(* for a request if and only if it is younger than 60 seconds at that      *)
(* request; a fetch that fails or yields invalid values leaves the entry   *)
(* unchanged.                                                              *)
(***************************************************************************)
C28_MemoryCacheHoldsValidLiveRates ==
    LET q == og.req IN
    /\ og.dataCache # Null => ValidRates(og.dataCache)
    /\ og.dataCache # q.atStart =>
           /\ q.used = "live"
           /\ q.calc # Null
           /\ og.dataCache = Entry(q.calc, q.now)
    /\ q.phase # "none" =>
           (q.used = "cache" <=>
               (q.atStart # Null /\ q.now - q.atStart.timestamp < 60 * 1000))
    /\ q.used = "cache" => q.shown = Rates(q.atStart)
    /\ q.used = "fallback" => og.dataCache = q.atStart

\* the case: an entry exactly 60 seconds old is not used, the fetch of that
\* request fails, and the entry is still there
C28_Witness ==
    /\ og.req.phase = "done"
    /\ og.req.used = "fallback"
    /\ og.req.call.phase = "raised"
    /\ og.dataCache # Null
    /\ og.req.now - og.dataCache.timestamp = 60 * 1000

====
